---------------------------- MODULE Spec2Model ----------------------------
(***************************************************************************)
(* Viewership sampling subsystem of caculadora_metricas: the SQLite store  *)
(* (src/src/storage.py), the Twitch client (src/src/twitch_client.py), the *)
(* collector loop (src/src/collector.py) and the VOD refresh branch of the *)
(* dashboard (src/app.py).                                                 *)
(***************************************************************************)
EXTENDS Integers, Sequences, FiniteSets, TLC

VARIABLES
    now,        \* wall clock, in ticks (TicksPerSecond ticks per second)
    samples,    \* committed rows of table stream_samples, in rowid order
    cache,      \* committed rows of table vod_summary_cache
    txnRows,    \* per connection: stream_samples rows inserted, not committed
    txnCache,   \* per connection: <<table>> written but not committed, or None
    lock,       \* the connection holding the database write lock, or NoConn
    inTxn,      \* per connection: a transaction is open
    snap,       \* per connection: <<the tables its transaction reads>>, or None
    ret,        \* the last call made: operation, arguments, outcome
    failedPos,  \* history: rowids the rows of failed batches have or will get
    token,      \* per TwitchClient: _token, None before the first acquisition
    token_exp,  \* per TwitchClient: _token_exp
    tokenRequests,  \* history: POSTs made to the token endpoint
    cpc,        \* collector: position in main()
    channels,   \* collector: the configured channel list
    ts,         \* collector: timestamp of the current tick
    chunkAt,    \* collector: loop index i of get_streams_by_logins
    out,        \* collector: result map get_streams_by_logins is building
    live_map,   \* collector: result of the lookup
    rows,       \* collector: the batch of the current tick
    ticks,      \* history: ticks started
    savedTicks, \* history: ticks whose batch was written
    sent,       \* history: the chunks of logins the lookup in progress has sent
    has_creds,  \* dashboard: Twitch credentials are configured
    apc,        \* per session: position in the script run of the Twitch page
    channel,    \* per session: the selected channel, normalized
    refresh_vods,   \* per session: the refresh button was pressed
    u,          \* per session: the user record found for the channel
    vods,       \* per session: the listing get_vods_by_user_id returned
    vs,         \* per session: vod_summary(vods)
    vod_cached, \* per session: the cached summary the page shows
    outcome,    \* per session: the message of the refresh branch
    stats,      \* per session: the dictionary get_stream_stats_30d is building
    upsert_now, \* per session: the local now of upsert_vod_summary, in ticks
    wrote       \* history, per session: the aggregate the run committed, or None

storeVars == <<samples, cache, txnRows, txnCache, lock, inTxn, snap>>
clientVars == <<token, token_exp, tokenRequests>>
collectorVars == <<cpc, channels, ts, chunkAt, out, live_map, rows, ticks, savedTicks,
                   sent>>
appVars == <<has_creds, apc, channel, refresh_vods, u, vods, vs, vod_cached, outcome,
             stats, upsert_now, wrote>>
vars == <<now, samples, cache, txnRows, txnCache, lock, inTxn, snap, ret, failedPos,
          token, token_exp, tokenRequests,
          cpc, channels, ts, chunkAt, out, live_map, rows, ticks, savedTicks, sent,
          has_creds, apc, channel, refresh_vods, u, vods, vs, vod_cached, outcome,
          stats, upsert_now, wrote>>

-----------------------------------------------------------------------------
(* Optional values: Python None / SQL NULL is None, a value x is Some(x).  *)
None == <<>>
Some(x) == <<x>>
Val(o) == o[1]

(* Bounds of the model.                                                    *)
TicksPerSecond == 2     \* clock resolution below one second
MaxRows == 3            \* rows a connection may see in stream_samples
MaxBatch == 2           \* rows in one batch of the store harness
MaxAdvance == 1         \* ticks the clock may be off a period of interest
MaxRequests == 3        \* POSTs to the token endpoint in one behaviour
MaxTicks == 2           \* ticks the collector starts in one behaviour

Seconds(n) == n * TicksPerSecond
Hours(n) == Seconds(n * 3600)
Days(n) == Hours(n * 24)

-----------------------------------------------------------------------------
(* Text.  A login is a sequence of characters; str.lower() maps each one.  *)
LowerChar(c) ==
    CASE c = "A" -> "a"
      [] c = "B" -> "b"
      [] c = "C" -> "c"
      [] c = "H" -> "h"
      [] c = "I" -> "i"
      [] c = "P" -> "p"
      [] c = "S" -> "s"
      [] c = "T" -> "t"
      [] c = "V" -> "v"
      [] c = "W" -> "w"
      [] OTHER -> c

Lower(s) == [i \in DOMAIN s |-> LowerChar(s[i])]

(* datetime.isoformat() of an aware UTC time: the seconds field, then the  *)
(* fraction only when it is not zero ("...SS+00:00" or "...SS.ffffff+00:00").*)
(* The text is <<seconds, separator, fraction>>, the separator being the   *)
(* character that follows the seconds: "+" (rank 0) or "." (rank 1).       *)
IsoFormat(t) ==
    <<t \div TicksPerSecond,
      IF t % TicksPerSecond = 0 THEN 0 ELSE 1,
      t % TicksPerSecond>>

(* datetime.fromisoformat() of such a text.                                *)
FromIsoFormat(s) == s[1] * TicksPerSecond + s[3]

(* SQLite's comparison of two TEXT values: bytewise, left to right.        *)
TextGE(a, b) ==
    \/ a[1] > b[1]
    \/ a[1] = b[1] /\ a[2] > b[2]
    \/ a[1] = b[1] /\ a[2] = b[2] /\ a[3] >= b[3]

-----------------------------------------------------------------------------
(* The SQLite database of storage.py, in WAL mode (storage.py:13), its     *)
(* connections with the transaction control sqlite3.connect gives them: an *)
(* INSERT outside a transaction first opens a deferred one (BEGIN), which  *)
(* stays open until conn.commit(), a rollback or the end of the process.   *)
(* One connection at a time holds the write lock, from its first write to  *)
(* the end of its transaction.  A SELECT outside a transaction reads the   *)
(* committed tables; inside one it reads the snapshot the transaction's    *)
(* first statement pinned, and the connection's own writes.                *)
Conns == {"collector", "app1", "app2"}
NoConn == "none"

Db == [samples |-> samples, cache |-> cache, txnRows |-> txnRows,
       txnCache |-> txnCache, lock |-> lock, inTxn |-> inTxn, snap |-> snap]

SetDb(db) ==
    /\ samples' = db.samples
    /\ cache' = db.cache
    /\ txnRows' = db.txnRows
    /\ txnCache' = db.txnCache
    /\ lock' = db.lock
    /\ inTxn' = db.inTxn
    /\ snap' = db.snap

EmptyDb ==
    [samples |-> <<>>, cache |-> {}, txnRows |-> [c \in Conns |-> <<>>],
     txnCache |-> [c \in Conns |-> None], lock |-> NoConn,
     inTxn |-> [c \in Conns |-> FALSE], snap |-> [c \in Conns |-> None]]

(* init_db: both tables exist and are empty in a new database file.        *)
init_db == EmptyDb

(* The implicit BEGIN before an INSERT: deferred, it takes no lock and     *)
(* pins no snapshot.                                                       *)
Begin(db, c) == [db EXCEPT !.inTxn[c] = TRUE]

(* A statement of connection c starts reading: inside a transaction that   *)
(* has no snapshot yet, the committed tables are pinned as its snapshot.   *)
Select(db, c) ==
    IF db.inTxn[c] /\ db.snap[c] = None
    THEN [db EXCEPT !.snap[c] =
             Some([samples |-> db.samples, cache |-> db.cache, stale |-> FALSE])]
    ELSE db

(* The tables a statement of connection c reads, without c's own writes.   *)
Base(db, c) ==
    IF db.snap[c] = None THEN [samples |-> db.samples, cache |-> db.cache]
    ELSE [samples |-> Val(db.snap[c]).samples, cache |-> Val(db.snap[c]).cache]

(* What a SELECT on connection c reads.                                    *)
SamplesView(db, c) == Base(db, c).samples \o db.txnRows[c]
CacheView(db, c) == IF db.txnCache[c] = None THEN Base(db, c).cache ELSE Val(db.txnCache[c])

(* Connection c can write: it holds the write lock, or the lock is free    *)
(* and no other connection has committed since c's snapshot was pinned.    *)
(* Otherwise the statement raises OperationalError (database is locked),   *)
(* after the busy timeout when another connection holds the lock.          *)
CanWrite(db, c) ==
    \/ db.lock = c
    \/ db.lock = NoConn /\ (db.snap[c] = None \/ ~Val(db.snap[c]).stale)

(* The first write of a transaction takes the write lock.                  *)
TakeLock(db, c) == [Select(Begin(db, c), c) EXCEPT !.lock = c]

(* The end of connection c's transaction, its writes dropped.              *)
Rollback(db, c) ==
    [db EXCEPT !.txnRows[c] = <<>>, !.txnCache[c] = None,
               !.lock = IF db.lock = c THEN NoConn ELSE db.lock,
               !.inTxn[c] = FALSE, !.snap[c] = None]

(* A commit that publishes the connection's rows in place of the log.      *)
CommitReplacingLog(db, c) == [Rollback(db, c) EXCEPT !.samples = db.txnRows[c]]

(* conn.commit(): the connection's uncommitted writes become the committed *)
(* tables, the write lock is released and the transaction ends.  The       *)
(* snapshots other connections hold are older than the database from then *)
(* on.                                                                     *)
Commit(db, c) ==
    LET written == db.txnRows[c] # <<>> \/ db.txnCache[c] # None
        ended == Rollback(db, c)
    IN [ended EXCEPT
          !.samples = db.samples \o db.txnRows[c],
          !.cache = IF db.txnCache[c] = None THEN db.cache ELSE Val(db.txnCache[c]),
          !.snap = [d \in Conns |->
                      IF d # c /\ written /\ db.snap[d] # None
                      THEN Some([Val(db.snap[d]) EXCEPT !.stale = TRUE])
                      ELSE ended.snap[d]]]

(* Closing a connection (process exit) rolls its open transaction back.    *)
CloseConn(db, c) == Rollback(db, c)

(* A stream_samples row is the 8-tuple the INSERT binds:                   *)
(* <<ts_utc, user_login, is_live, viewer_count, game_name, title,          *)
(*   started_at, stream_id>>, the last four optional.                      *)
SampleColumns == 8

(* The first row of a batch whose INSERT fails, 0 when none does: a row    *)
(* with the wrong number of bindings, or the row at which the storage      *)
(* fails (fault, 0 for no storage failure).                                *)
FirstFailure(batch, fault) ==
    LET bad == {i \in 1..Len(batch) : Len(batch[i]) # SampleColumns \/ i = fault}
    IN IF bad = {} THEN 0 ELSE CHOOSE i \in bad : \A j \in bad : i <= j

(* conn.executemany(INSERT ...): the transaction is opened, then the rows  *)
(* are bound and inserted one by one; the first one inserted takes the     *)
(* write lock.  A row with the wrong bindings raises ProgrammingError and  *)
(* leaves the rows before it in the open transaction.  A storage failure   *)
(* (disk full, interrupt) raises OperationalError and SQLite rolls the     *)
(* whole transaction back.                                                 *)
ExecuteManyInsert(db, c, batch, fault) ==
    LET k == FirstFailure(batch, fault)
        binding == k # 0 /\ Len(batch[k]) # SampleColumns
        done == IF k = 0 THEN batch ELSE SubSeq(batch, 1, k - 1)
    IN IF k = 1 /\ binding
       THEN [db |-> Begin(db, c), exc |-> Some("ProgrammingError")]
       ELSE IF ~CanWrite(db, c)
       THEN [db |-> Begin(db, c), exc |-> Some("OperationalError")]
       ELSE IF k # 0 /\ ~binding
       THEN [db |-> Rollback(db, c), exc |-> Some("OperationalError")]
       ELSE [db |-> [TakeLock(db, c) EXCEPT !.txnRows[c] = @ \o done],
             exc |-> IF k = 0 THEN None ELSE Some("ProgrammingError")]

(* insert_stream_samples(conn, rows).  A conn.commit() that fails in the   *)
(* storage has the outcome of the storage failing at the last row: the     *)
(* transaction rolled back and OperationalError.                           *)
insert_stream_samples(db, c, batch, fault) ==
    IF batch = <<>>
    THEN [db |-> db, exc |-> None]
    ELSE LET e == ExecuteManyInsert(db, c, batch, fault)
         IN IF e.exc # None THEN e
            ELSE [db |-> Commit(e.db, c), exc |-> None]

WindowDays == 30

(* _since_utc(days).                                                       *)
SinceUtc(t, days) == IsoFormat(t - Days(days))

(* SQL aggregates over a sequence of rows.                                  *)
RECURSIVE SumViewers(_)
SumViewers(batch) ==
    IF batch = <<>> THEN 0 ELSE batch[1][4] + SumViewers(Tail(batch))

RECURSIVE MaxViewers(_)
MaxViewers(batch) ==
    IF Len(batch) = 1 THEN batch[1][4]
    ELSE LET m == MaxViewers(Tail(batch))
         IN IF batch[1][4] >= m THEN batch[1][4] ELSE m

RECURSIVE MaxTs(_)
MaxTs(batch) ==
    IF Len(batch) = 1 THEN batch[1][1]
    ELSE LET m == MaxTs(Tail(batch))
         IN IF TextGE(batch[1][1], m) THEN batch[1][1] ELSE m

(* LiveRowFilter without its is_live condition.                            *)
LiveRowFilterAnyStatus(r, login, since) ==
    r[2] = login /\ TextGE(r[1], since)

(* WHERE user_login = ? AND ts_utc >= ? AND is_live = 1                    *)
LiveRowFilter(r, login, since) ==
    r[2] = login /\ TextGE(r[1], since) /\ r[3] = 1

(* The first SELECT of get_stream_stats_30d at time t: the aggregates over *)
(* the live rows of the window.  AVG is the exact quotient <<sum, count>>. *)
SelectLiveStats(db, c, user_login, t) ==
    LET since == SinceUtc(t, WindowDays)
        login == Lower(user_login)
        live == SelectSeq(SamplesView(db, c), LAMBDA r : LiveRowFilter(r, login, since))
    IN [live_samples |-> Len(live),
        avg_viewers |-> IF live = <<>> THEN None ELSE Some(<<SumViewers(live), Len(live)>>),
        peak_viewers |-> IF live = <<>> THEN None ELSE Some(MaxViewers(live)),
        last_live_sample |-> IF live = <<>> THEN None ELSE Some(MaxTs(live))]

(* The second SELECT: MAX(ts_utc) over all rows of the channel.            *)
SelectLastAny(db, c, user_login) ==
    LET any == SelectSeq(SamplesView(db, c), LAMBDA r : r[2] = Lower(user_login))
    IN IF any = <<>> THEN None ELSE Some(MaxTs(any))

(* The dictionary get_stream_stats_30d returns.                            *)
StatsDict(row, last_any) ==
    [live_samples_30d |-> row.live_samples,
     avg_viewers_30d |-> row.avg_viewers,
     peak_viewers_30d |-> row.peak_viewers,
     last_live_sample_utc |-> row.last_live_sample,
     last_any_sample_utc |-> last_any]

(* get_stream_stats_30d(conn, user_login) at time t, no other connection   *)
(* committing between its two SELECTs.                                     *)
get_stream_stats_30d(db, c, user_login, t) ==
    StatsDict(SelectLiveStats(db, c, user_login, t),
              SelectLastAny(Select(db, c), c, user_login))

(* The comparison age >= timedelta(hours=h).                               *)
TimedeltaGE(age, h) == age \div Hours(1) >= h

(* The comparison age > timedelta(hours=h), age in ticks.                  *)
TimedeltaGT(age, h) ==
    \/ age \div Hours(1) > h
    \/ age \div Hours(1) = h /\ age % Hours(1) > 0

DefaultMaxAgeHours == 12

(* get_cached_vod_summary(conn, user_login, max_age_hours) at time t.      *)
get_cached_vod_summary(db, c, user_login, max_age_hours, t) ==
    LET found == {r \in CacheView(db, c) : r.user_login = Lower(user_login)}
    IN IF found = {} THEN None
       ELSE LET row == CHOOSE r \in found : TRUE
                updated_at == FromIsoFormat(row.updated_at_utc)
            IN IF TimedeltaGT(t - updated_at, max_age_hours) THEN None
               ELSE Some([updated_at_utc |-> row.updated_at_utc,
                          vod_count |-> row.vod_count,
                          avg_vod_views |-> row.avg_vod_views,
                          median_vod_views |-> row.median_vod_views,
                          views_per_hour |-> row.views_per_hour])

(* INSERT without its ON CONFLICT clause taking effect.                    *)
UpsertRowNoConflict(table, row) == table \cup {row}

UpsertRowKeepCount(table, row) ==
    IF \E r \in table : r.user_login = row.user_login
    THEN {IF r.user_login = row.user_login
          THEN [row EXCEPT !.vod_count = r.vod_count]
          ELSE r : r \in table}
    ELSE table \cup {row}

(* INSERT ... ON CONFLICT(user_login) DO UPDATE SET <the five columns>.    *)
UpsertRow(table, row) ==
    IF \E r \in table : r.user_login = row.user_login
    THEN {IF r.user_login = row.user_login
          THEN [r EXCEPT !.updated_at_utc = row.updated_at_utc,
                         !.vod_count = row.vod_count,
                         !.avg_vod_views = row.avg_vod_views,
                         !.median_vod_views = row.median_vod_views,
                         !.views_per_hour = row.views_per_hour]
          ELSE r : r \in table}
    ELSE table \cup {row}

(* conn.execute(INSERT ... ON CONFLICT ...) of upsert_vod_summary: one     *)
(* statement in the connection's transaction, which it opens.              *)
UpsertExecute(db, c, user_login, vod_count, avg_vod_views, median_vod_views, views_per_hour, t) ==
    IF ~CanWrite(db, c)
    THEN [db |-> Begin(db, c), exc |-> Some("OperationalError")]
    ELSE LET row == [user_login |-> Lower(user_login),
                     updated_at_utc |-> IsoFormat(t),
                     vod_count |-> vod_count,
                     avg_vod_views |-> avg_vod_views,
                     median_vod_views |-> median_vod_views,
                     views_per_hour |-> views_per_hour]
             held == TakeLock(db, c)
         IN [db |-> [held EXCEPT !.txnCache[c] = Some(UpsertRow(CacheView(held, c), row))],
             exc |-> None]

(* conn.commit() that may fail: when the storage fails (disk full) it      *)
(* raises OperationalError and SQLite rolls the transaction back.          *)
CommitOrFail(db, c, fails) ==
    IF fails THEN [db |-> Rollback(db, c), exc |-> Some("OperationalError")]
    ELSE [db |-> Commit(db, c), exc |-> None]

(* upsert_vod_summary(conn, user_login, ...) at time t, no other           *)
(* connection taking a step between its statement and its commit.          *)
upsert_vod_summary(db, c, user_login, vod_count, avg_vod_views, median_vod_views, views_per_hour, t, fails) ==
    LET e == UpsertExecute(db, c, user_login, vod_count, avg_vod_views,
                           median_vod_views, views_per_hour, t)
    IN IF e.exc # None THEN e
       ELSE CommitOrFail(e.db, c, fails)

-----------------------------------------------------------------------------
(* TwitchClient of twitch_client.py.  A client is the pair of its _token   *)
(* and _token_exp fields; the processes own one client each.               *)
Clients == Conns

(* TwitchClient.__init__.                                                  *)
NewClient == [token |-> [c \in Clients |-> None], token_exp |-> [c \in Clients |-> 0]]

TokenMarginSeconds == 60
DefaultExpiresIn == 3600

(* The cached-token test without its 60 second margin.                     *)
TokenFreshNoMargin(tok, exp, t) == tok # None /\ t < exp

(* self._token and now < (self._token_exp - 60)                            *)
TokenFresh(tok, exp, t) == tok # None /\ t < exp - Seconds(TokenMarginSeconds)

(* The answers of the token endpoint: a failure status, or a token with or *)
(* without an expires_in field.                                            *)
TokenResponses ==
    {[ok |-> FALSE, access_token |-> "", expires_in |-> None]}
    \cup {[ok |-> TRUE, access_token |-> a, expires_in |-> e] :
            a \in {"t1", "t2"}, e \in {None, Some(30), Some(120)}}

(* TwitchClient._get_app_token at time t, the endpoint answering resp when *)
(* asked: the new fields, whether a POST was made, the token or exception. *)
get_app_token(tok, exp, t, resp) ==
    IF TokenFresh(tok, exp, t)
    THEN [token |-> tok, token_exp |-> exp, posted |-> FALSE,
          exc |-> None, result |-> tok]
    ELSE IF ~resp.ok
    THEN [token |-> tok, token_exp |-> exp, posted |-> TRUE,
          exc |-> Some("HTTPError"), result |-> None]
    ELSE LET expires_in == IF resp.expires_in = None THEN DefaultExpiresIn
                           ELSE Val(resp.expires_in)
         IN [token |-> Some(resp.access_token),
             token_exp |-> t + Seconds(expires_in),
             posted |-> TRUE, exc |-> None, result |-> Some(resp.access_token)]

chunk_size == 100

Min(a, b) == IF a <= b THEN a ELSE b

ChunkOfOneMore(logins, i) == SubSeq(logins, i + 1, Min(i + chunk_size + 1, Len(logins)))

(* logins[i:i + chunk_size], i counted from 0.                             *)
ChunkOf(logins, i) == SubSeq(logins, i + 1, Min(i + chunk_size, Len(logins)))

(* dict.get(key) and dict.get(key, default) on a payload, whose fields are *)
(* optional.                                                               *)
DictGet(d, key) == d[key]
DictGetDefault(d, key, default) == IF d[key] = None THEN default ELSE Val(d[key])

EmptyMap == [k \in {} |-> None]

(* for s in data: out[s["user_login"].lower()] = s, data holding at most   *)
(* one stream per login.                                                   *)
MergeStreams(old, data) ==
    LET keys == {Lower(Val(p.user_login)) : p \in data}
    IN [k \in DOMAIN old \cup keys |->
           IF k \in keys THEN CHOOSE p \in data : Lower(Val(p.user_login)) = k
           ELSE old[k]]

(* self._session.get(..., headers=self._headers(), ...): the request goes  *)
(* out unless the token for its headers could not be had.                  *)
RequestSent(tok, exp, t, tokResp) == get_app_token(tok, exp, t, tokResp).exc = None

(* One iteration of the loop of get_streams_by_logins at index i: the      *)
(* token for the headers, the GET, raise_for_status, the merge.  apiResp   *)
(* is the platform's answer: ok and the data, or a failure status.         *)
StreamsChunk(tok, exp, t, tokResp, apiResp, old) ==
    LET h == get_app_token(tok, exp, t, tokResp)
    IN IF h.exc # None
       THEN [token |-> h.token, token_exp |-> h.token_exp, posted |-> h.posted,
             exc |-> h.exc, out |-> old]
       ELSE IF ~apiResp.ok
       THEN [token |-> h.token, token_exp |-> h.token_exp, posted |-> h.posted,
             exc |-> Some("HTTPError"), out |-> old]
       ELSE [token |-> h.token, token_exp |-> h.token_exp, posted |-> h.posted,
             exc |-> None, out |-> MergeStreams(old, apiResp.data)]

-----------------------------------------------------------------------------
(* The VOD aggregate of app.py.  Floats are exact quotients <<n, d>> in    *)
(* lowest terms, d > 0.                                                    *)
RECURSIVE GCD(_, _)
GCD(a, b) == IF b = 0 THEN a ELSE GCD(b, a % b)

Rat(n, d) == LET g == GCD(n, d) IN IF g = 0 THEN <<0, 1>> ELSE <<n \div g, d \div g>>

Digits == <<"0", "1", "2", "3", "4", "5", "6", "7", "8", "9">>
IsDigit(ch) == \E i \in 1..Len(Digits) : Digits[i] = ch
DigitValue(ch) == (CHOOSE i \in 1..Len(Digits) : Digits[i] = ch) - 1

(* int(text) of a run of digits.                                           *)
RECURSIVE ParseInt(_)
ParseInt(text) ==
    IF text = <<>> THEN 0
    ELSE 10 * ParseInt(SubSeq(text, 1, Len(text) - 1)) + DigitValue(text[Len(text)])

(* re.search(r"(\d+)<unit>", text): group 1 of the leftmost match, as an   *)
(* integer, or None.  The leftmost match is the first whole run of digits  *)
(* that the unit letter follows.                                           *)
SearchUnit(text, unit) ==
    LET ends == {j \in 2..Len(text) : text[j] = unit /\ IsDigit(text[j - 1])}
    IN IF ends = {} THEN None
       ELSE LET j == CHOOSE e \in ends : \A f \in ends : e <= f
                i == CHOOSE b \in 1..(j - 1) :
                        /\ \A k \in b..(j - 1) : IsDigit(text[k])
                        /\ b = 1 \/ ~IsDigit(text[b - 1])
            IN Some(ParseInt(SubSeq(text, i, j - 1)))

(* parse_twitch_duration_to_hours(s), in seconds: the hours are this       *)
(* number over 3600.                                                       *)
parse_twitch_duration_to_seconds(text) ==
    IF text = <<>> THEN 0
    ELSE LET mh == SearchUnit(text, "h")
             mm == SearchUnit(text, "m")
             ms == SearchUnit(text, "s")
         IN (IF mh = None THEN 0 ELSE 3600 * Val(mh))
            + (IF mm = None THEN 0 ELSE 60 * Val(mm))
            + (IF ms = None THEN 0 ELSE Val(ms))

RECURSIVE SumSeq(_)
SumSeq(xs) == IF xs = <<>> THEN 0 ELSE xs[1] + SumSeq(Tail(xs))

RECURSIVE Sorted(_)
Sorted(xs) ==
    IF xs = <<>> THEN <<>>
    ELSE LET rest == Sorted(Tail(xs))
             below == SelectSeq(rest, LAMBDA y : y <= xs[1])
             above == SelectSeq(rest, LAMBDA y : y > xs[1])
         IN below \o <<xs[1]>> \o above

MedianLowerMiddle(data) ==
    LET xs == Sorted(data)
    IN Rat(xs[(Len(xs) + 1) \div 2], 1)

(* statistics.median(data), data not empty.                                *)
Median(data) ==
    LET xs == Sorted(data)
        n == Len(xs)
    IN IF n % 2 = 1 THEN Rat(xs[(n + 1) \div 2], 1)
       ELSE Rat(xs[n \div 2] + xs[n \div 2 + 1], 2)

(* A VOD is its optional view_count and duration.  views and hours of     *)
(* vod_summary, the hours in seconds.                                      *)
VodViews(listing) ==
    [i \in 1..Len(listing) |-> DictGetDefault(listing[i], "view_count", 0)]

VodSeconds(listing) ==
    [i \in 1..Len(listing) |->
        parse_twitch_duration_to_seconds(DictGetDefault(listing[i], "duration", <<>>))]

vod_summaryZeroRate(listing) ==
    IF listing = <<>>
    THEN [vod_count |-> 0, avg_vod_views |-> None, median_vod_views |-> None,
          views_per_hour |-> None]
    ELSE [vod_count |-> Len(listing),
          avg_vod_views |-> Some(Rat(SumSeq(VodViews(listing)), Len(listing))),
          median_vod_views |-> Some(Median(VodViews(listing))),
          views_per_hour |-> Some(<<0, 1>>)]

(* vod_summary(vods).                                                      *)
vod_summary(listing) ==
    IF listing = <<>>
    THEN [vod_count |-> 0, avg_vod_views |-> None, median_vod_views |-> None,
          views_per_hour |-> None]
    ELSE LET views == VodViews(listing)
             total_views == SumSeq(views)
             total_seconds == SumSeq(VodSeconds(listing))
         IN [vod_count |-> Len(listing),
             avg_vod_views |-> Some(Rat(total_views, Len(views))),
             median_vod_views |-> Some(Median(views)),
             views_per_hour |->
                 IF total_seconds > 0 THEN Some(Rat(total_views * 3600, total_seconds))
                 ELSE None]

-----------------------------------------------------------------------------
(* Store harness for stream_samples: one connection writes batches, both   *)
(* connections read, the clock advances.                                   *)
Writer == "collector"
Reader == "app1"

(* The clock starts later than one window after the epoch.                 *)
StartTime == Days(WindowDays + 1)

LoginA == <<"a">>
LoginB == <<"b">>
QueryLogins == {<<"a">>, <<"A">>, <<"b">>}

OfflineRow(stamp, login) == <<stamp, login, 0, 0, None, None, None, None>>
LiveRow(stamp, login, viewers) ==
    <<stamp, login, 1, viewers, Some("game"), Some("title"), Some(stamp), Some("id")>>

(* The well-formed rows a caller may append at time t.                     *)
HarnessRows(t) ==
    {OfflineRow(IsoFormat(t), LoginA),
     LiveRow(IsoFormat(t), LoginA, 100),
     LiveRow(IsoFormat(t), LoginA, 300),
     LiveRow(IsoFormat(t), LoginB, 100)}

(* The batches of the batch harness; one kind of row lacks bindings.       *)
BatchRows(t) ==
    {LiveRow(IsoFormat(t), LoginA, 100),
     OfflineRow(IsoFormat(t), LoginB),
     <<IsoFormat(t), LoginA>>}

HarnessBatches(t) ==
    UNION {[1..n -> BatchRows(t)] : n \in 0..MaxBatch}

Call(op, conn, args, exc, result) ==
    [op |-> op, conn |-> conn, args |-> args, exc |-> exc, result |-> result]

(* The collector process is not running.                                  *)
AppConns == {"app1", "app2"}

(* No dashboard session is running.                                        *)
AppIdle ==
    /\ apc = [s \in AppConns |-> "idle"]
    /\ channel = [s \in AppConns |-> <<>>]
    /\ refresh_vods = [s \in AppConns |-> FALSE]
    /\ u = [s \in AppConns |-> None]
    /\ vods = [s \in AppConns |-> <<>>]
    /\ vs = [s \in AppConns |-> None]
    /\ vod_cached = [s \in AppConns |-> None]
    /\ outcome = [s \in AppConns |-> "none"]
    /\ stats = [s \in AppConns |-> None]
    /\ upsert_now = [s \in AppConns |-> None]
    /\ wrote = [s \in AppConns |-> None]

AppNotStarted ==
    /\ has_creds = FALSE
    /\ AppIdle

CollectorNotStarted ==
    /\ cpc = "off"
    /\ channels = <<>>
    /\ ts = IsoFormat(0)
    /\ chunkAt = 0
    /\ out = EmptyMap
    /\ live_map = EmptyMap
    /\ rows = <<>>
    /\ ticks = 0
    /\ savedTicks = 0
    /\ sent = <<>>

SampleInit ==
    /\ now = StartTime
    /\ samples = init_db.samples
    /\ cache = init_db.cache
    /\ txnRows = init_db.txnRows
    /\ txnCache = init_db.txnCache
    /\ lock = init_db.lock
    /\ inTxn = init_db.inTxn
    /\ snap = init_db.snap
    /\ ret = Call("init", NoConn, <<>>, None, None)
    /\ failedPos = {}
    /\ token = NewClient.token
    /\ token_exp = NewClient.token_exp
    /\ tokenRequests = 0
    /\ CollectorNotStarted
    /\ AppNotStarted

(* storage.insert_stream_samples(conn, rows), its exception caught.        *)
StoreInsert(batch, fault) ==
    LET before == Len(SamplesView(Db, Writer))
        r == insert_stream_samples(Db, Writer, batch, fault)
        after == Len(SamplesView(r.db, Writer))
    IN /\ before + Len(batch) <= MaxRows
       /\ SetDb(r.db)
       /\ ret' = Call("insert", Writer, <<Len(batch)>>, r.exc, None)
       /\ failedPos' = IF r.exc = None THEN failedPos
                       ELSE failedPos \cup (before + 1 .. after)
       /\ UNCHANGED <<appVars, now, clientVars, collectorVars>>

(* The clock advances by a tick, or by about a period of interest.         *)
StepsOf(period) == {1, period - 1, period}
ClockSteps == StepsOf(Days(WindowDays))

ClockAdvance(d, period) ==
    /\ now + d <= StartTime + period + MaxAdvance
    /\ \/ (now + d - StartTime) % period <= MaxAdvance
       \/ (now + d - StartTime) % period >= period - MaxAdvance
    /\ now' = now + d
    /\ ret' = Call("clock", NoConn, <<d>>, None, None)
    /\ UNCHANGED <<appVars, storeVars, failedPos, clientVars, collectorVars>>

SampleNext ==
    \/ \E row \in HarnessRows(now) : StoreInsert(<<row>>, 0)
    \/ \E d \in ClockSteps : ClockAdvance(d, Days(WindowDays))

SampleSpec == SampleInit /\ [][SampleNext]_vars

(* Batch harness: batches that may fail part-way, on one connection.       *)
BatchNext ==
    \E batch \in HarnessBatches(now), fault \in 0..MaxBatch :
        fault <= Len(batch) /\ StoreInsert(batch, fault)

BatchSpec == SampleInit /\ [][BatchNext]_vars

-----------------------------------------------------------------------------
(* The collector process: main() of collector.py.                          *)
DefaultInterval == 120

Digit(n) == Digits[n + 1]

(* The login "u<i>", i below 1000.                                         *)
FillerLogin(i) == <<"u", Digit(i \div 100), Digit((i \div 10) % 10), Digit(i % 10)>>

(* Channel lists as read_channels_file returns them: lowercase, no login   *)
(* twice.  The long one needs two chunks, with b in the second.            *)
ShortList == <<LoginA, LoginB>>
LongList == <<LoginA>> \o [i \in 1..(chunk_size - 1) |-> FillerLogin(i)] \o <<LoginB>>
ChannelLists == {ShortList, LongList}

(* Streams the platform may report: login a spelled in upper case, login b *)
(* with no viewer_count and no game_name.                                  *)
StreamA ==
    [id |-> Some("1"), user_login |-> Some(<<"A">>), viewer_count |-> Some(300),
     game_name |-> Some("game"), title |-> Some("title"), started_at |-> Some("s1")]
StreamB ==
    [id |-> Some("2"), user_login |-> Some(<<"b">>), viewer_count |-> None,
     game_name |-> None, title |-> Some("title"), started_at |-> Some("s2")]
StreamPool == {StreamA, StreamB}

InChunk(p, chunk) == \E i \in 1..Len(chunk) : chunk[i] = Lower(Val(p.user_login))

(* The answers of GET /streams for a chunk of logins.                      *)
StreamsResponses(chunk) ==
    {[ok |-> FALSE, data |-> {}]}
    \cup {[ok |-> TRUE, data |-> d] :
            d \in SUBSET {p \in StreamPool : InChunk(p, chunk)}}

CollectorTokenResponses ==
    {r \in TokenResponses : r.access_token # "t2" /\ r.expires_in # Some(30)}

(* The rows of a tick that leave out the channels that are not live.       *)
BuildRowsLiveOnly(chans, map, t) ==
    LET live == SelectSeq(chans, LAMBDA login : login \in DOMAIN map)
    IN [i \in 1..Len(live) |->
          <<t, live[i], 1, DictGetDefault(map[live[i]], "viewer_count", 0),
            DictGet(map[live[i]], "game_name"), DictGet(map[live[i]], "title"),
            DictGet(map[live[i]], "started_at"), DictGet(map[live[i]], "id")>>]

(* rows = [] ... for login in channels: rows.append(...)                   *)
BuildRows(chans, map, t) ==
    [i \in 1..Len(chans) |->
        IF chans[i] \in DOMAIN map
        THEN <<t, chans[i], 1, DictGetDefault(map[chans[i]], "viewer_count", 0),
               DictGet(map[chans[i]], "game_name"), DictGet(map[chans[i]], "title"),
               DictGet(map[chans[i]], "started_at"), DictGet(map[chans[i]], "id")>>
        ELSE <<t, chans[i], 0, 0, None, None, None, None>>]

(* The position after the except branch has printed the error, had it      *)
(* re-raised instead.                                                      *)
AfterLookupErrorRaise == "exited"

AfterLookupErrorRetry == "tick"

(* The position after the except branch has printed the error: the sleep   *)
(* of line 60, then continue.                                              *)
AfterLookupError == "sleep_after_error"

SpecInit ==
    /\ now = StartTime
    /\ samples = init_db.samples
    /\ cache = init_db.cache
    /\ txnRows = init_db.txnRows
    /\ txnCache = init_db.txnCache
    /\ lock = init_db.lock
    /\ inTxn = init_db.inTxn
    /\ snap = init_db.snap
    /\ ret = Call("init", NoConn, <<>>, None, None)
    /\ failedPos = {}
    /\ token = NewClient.token
    /\ token_exp = NewClient.token_exp
    /\ tokenRequests = 0
    /\ cpc = "tick"
    /\ channels \in ChannelLists
    /\ ts = IsoFormat(0)
    /\ chunkAt = 0
    /\ out = EmptyMap
    /\ live_map = EmptyMap
    /\ rows = <<>>
    /\ ticks = 0
    /\ savedTicks = 0
    /\ sent = <<>>
    /\ AppNotStarted

(* ts = datetime.now(timezone.utc).isoformat(), and the call of            *)
(* get_streams_by_logins up to its loop.                                   *)
TickStart ==
    /\ cpc = "tick"
    /\ ticks < MaxTicks
    /\ ts' = IsoFormat(now)
    /\ ticks' = ticks + 1
    /\ chunkAt' = 0
    /\ out' = EmptyMap
    /\ sent' = <<>>
    /\ cpc' = "lookup"
    /\ ret' = Call("tick", "collector", <<>>, None, None)
    /\ UNCHANGED <<appVars, now, storeVars, failedPos, clientVars, channels, live_map, rows,
                   savedTicks>>

(* One iteration of the loop of get_streams_by_logins; after the last one  *)
(* the map is returned.  An exception is caught by the except of main().   *)
LookupChunk(tokResp, apiResp) ==
    LET r == StreamsChunk(token["collector"], token_exp["collector"], now,
                          tokResp, apiResp, out)
        last == chunkAt + chunk_size >= Len(channels)
    IN /\ cpc = "lookup"
       /\ token' = [token EXCEPT !["collector"] = r.token]
       /\ token_exp' = [token_exp EXCEPT !["collector"] = r.token_exp]
       /\ tokenRequests' = tokenRequests + (IF r.posted THEN 1 ELSE 0)
       /\ out' = r.out
       /\ sent' = IF RequestSent(token["collector"], token_exp["collector"], now, tokResp)
                  THEN Append(sent, ChunkOf(channels, chunkAt)) ELSE sent
       /\ chunkAt' = IF r.exc = None THEN chunkAt + chunk_size ELSE chunkAt
       /\ live_map' = IF r.exc = None /\ last THEN r.out ELSE live_map
       /\ cpc' = IF r.exc # None THEN AfterLookupError
                 ELSE IF last THEN "write" ELSE "lookup"
       /\ ret' = Call("lookup", "collector", <<chunkAt>>, r.exc, None)
       /\ UNCHANGED <<appVars, now, storeVars, failedPos, channels, ts, rows, ticks,
                      savedTicks>>

(* The rows of the tick and storage.insert_stream_samples(conn, rows) up   *)
(* to its conn.executemany: the collector then holds the write lock with   *)
(* its rows uncommitted.  An exception leaves main(): the process exits    *)
(* and its connection closes.                                              *)
WriteTick(fault) ==
    /\ cpc = "write"
    /\ \E batch \in {BuildRows(channels, live_map, ts)} :
          \E r \in {ExecuteManyInsert(Db, "collector", batch, fault)} :
             \E db \in {IF r.exc = None THEN r.db ELSE CloseConn(r.db, "collector")} :
                /\ rows' = batch
                /\ SetDb(db)
                /\ cpc' = IF r.exc = None THEN "commit" ELSE "exited"
                /\ ret' = Call(IF r.exc = None THEN "executemany" ELSE "insert",
                               "collector", <<Len(batch)>>, r.exc, None)
    /\ UNCHANGED <<appVars, now, failedPos, clientVars, channels, ts, chunkAt, out,
                   live_map, ticks, savedTicks, sent>>

(* The conn.commit() of storage.insert_stream_samples.  It returns, and    *)
(* line 81 prints; or it raises OperationalError (the storage fails), the  *)
(* exception leaves main() and the process exits, its connection closing   *)
(* with the rows of the tick uncommitted.                                  *)
CommitTick(fails) ==
    /\ cpc = "commit"
    /\ \E db \in {IF fails THEN CloseConn(Db, "collector")
                  ELSE Commit(Db, "collector")} : SetDb(db)
    /\ cpc' = IF fails THEN "exited" ELSE "sleep_after_save"
    /\ savedTicks' = savedTicks + (IF fails THEN 0 ELSE 1)
    /\ ret' = Call("insert", "collector", <<Len(rows)>>,
                   IF fails THEN Some("OperationalError") ELSE None, None)
    /\ UNCHANGED <<appVars, now, failedPos, clientVars, channels, ts, chunkAt, out,
                   live_map, rows, ticks, sent>>

(* time.sleep(args.interval), at line 60 or at line 83.                    *)
Sleep ==
    /\ cpc \in {"sleep_after_error", "sleep_after_save"}
    /\ now' = now + Seconds(DefaultInterval)
    /\ cpc' = "tick"
    /\ ret' = Call("sleep", "collector", <<>>, None, None)
    /\ UNCHANGED <<appVars, storeVars, failedPos, clientVars, channels, ts, chunkAt, out,
                   live_map, rows, ticks, savedTicks, sent>>

CollectorStep ==
    \/ TickStart
    \/ \E tokResp \in CollectorTokenResponses :
          \E apiResp \in StreamsResponses(ChunkOf(channels, chunkAt)) :
              LookupChunk(tokResp, apiResp)
    \/ \E fault \in {0, 1, Len(channels)} : WriteTick(fault)
    \/ \E fails \in BOOLEAN : CommitTick(fails)
    \/ Sleep

Next == CollectorStep

Spec == SpecInit /\ [][Next]_vars

(* The collector is a running process: it takes its next step.             *)
FairSpec == Spec /\ WF_vars(CollectorStep)

-----------------------------------------------------------------------------
(* Store harness for vod_summary_cache: two connections upsert and read.   *)
(* Floats are exact quotients <<numerator, denominator>>.                  *)
FirstAggregate ==
    [vod_count |-> 3, avg_vod_views |-> <<200, 1>>,
     median_vod_views |-> <<200, 1>>, views_per_hour |-> <<150, 1>>]

SecondAggregate ==
    [vod_count |-> 2, avg_vod_views |-> <<75, 1>>,
     median_vod_views |-> <<75, 1>>, views_per_hour |-> <<100, 3>>]

HarnessMaxAges == {0, DefaultMaxAgeHours}

(* The calls of the harness: one connection upserts channel a, spelled in  *)
(* capitals, with the first aggregate and channel b with the second; the   *)
(* other one upserts channel a with the second aggregate.  Both read.      *)
HarnessSpellings == {<<"A">>, LoginB}

HarnessUpserts(c) ==
    IF c = "app1" THEN {<<(<<"A">>), FirstAggregate>>, <<LoginB, SecondAggregate>>}
    ELSE {<<LoginA, SecondAggregate>>}

(* The frame of a call on connection c: its position, its arguments and   *)
(* its local now.  A call that has returned or raised leaves none.         *)
CacheFrame(c, pos, login, agg, t) ==
    /\ apc' = [apc EXCEPT ![c] = pos]
    /\ channel' = [channel EXCEPT ![c] = login]
    /\ vs' = [vs EXCEPT ![c] = agg]
    /\ upsert_now' = [upsert_now EXCEPT ![c] = t]
    /\ UNCHANGED <<has_creds, refresh_vods, u, vods, vod_cached, outcome, stats, wrote>>

(* upsert_vod_summary returns or raises exc to its caller, the connection  *)
(* then at pos.                                                            *)
CacheReturn(c, exc, pos) ==
    /\ ret' = Call("upsert", c, <<channel[c], Val(vs[c]), Val(upsert_now[c])>>, exc, None)
    /\ CacheFrame(c, pos, <<>>, None, None)

(* storage.upsert_vod_summary(conn, login, ...) is called and reads the    *)
(* clock: now = datetime.now(timezone.utc).isoformat().                    *)
CacheUpsertNow(c, login, agg) ==
    /\ apc[c] = "idle"
    /\ CacheFrame(c, "execute", login, Some(agg), Some(now))
    /\ UNCHANGED <<now, storeVars, ret, failedPos, clientVars, collectorVars>>

(* Its INSERT ... ON CONFLICT statement: the write lock is taken, or the   *)
(* statement raises because another connection holds it.  The statement    *)
(* that raised leaves the connection inside the transaction it opened; the *)
(* run that made the call ends (app.py 378) and calls nothing more on it.  *)
CacheUpsertExecute(c) ==
    /\ apc[c] = "execute"
    /\ \E e \in {UpsertExecute(Db, c, channel[c], Val(vs[c]).vod_count,
                                Val(vs[c]).avg_vod_views, Val(vs[c]).median_vod_views,
                                Val(vs[c]).views_per_hour, Val(upsert_now[c]))} :
          /\ SetDb(e.db)
          /\ IF e.exc = None
             THEN /\ CacheFrame(c, "commit", channel[c], vs[c], upsert_now[c])
                  /\ UNCHANGED ret
             ELSE CacheReturn(c, e.exc, "done")
    /\ UNCHANGED <<now, failedPos, clientVars, collectorVars>>

(* Its conn.commit(), which returns or raises, and the return.             *)
CacheUpsertCommit(c, fails) ==
    /\ apc[c] = "commit"
    /\ \E e \in {CommitOrFail(Db, c, fails)} :
          /\ SetDb(e.db)
          /\ CacheReturn(c, e.exc, "idle")
    /\ UNCHANGED <<now, failedPos, clientVars, collectorVars>>

(* storage.get_cached_vod_summary(conn, login, max_age_hours), on a        *)
(* connection that is in no call.                                          *)
CacheRead(c, login, max_age_hours) ==
    /\ apc[c] = "idle"
    /\ ret' = Call("read", c, <<login, max_age_hours>>, None,
                   get_cached_vod_summary(Db, c, login, max_age_hours, now))
    /\ SetDb(Select(Db, c))
    /\ UNCHANGED <<appVars, now, failedPos, clientVars, collectorVars>>

CacheNext ==
    \/ \E c \in AppConns : \E call \in HarnessUpserts(c) :
          CacheUpsertNow(c, call[1], call[2])
    \/ \E c \in AppConns : CacheUpsertExecute(c)
    \/ \E c \in AppConns, fails \in BOOLEAN : CacheUpsertCommit(c, fails)
    \/ \E c \in AppConns, login \in HarnessSpellings, h \in HarnessMaxAges :
          CacheRead(c, login, h)
    \/ \E d \in StepsOf(Hours(DefaultMaxAgeHours)) :
          ClockAdvance(d, Hours(DefaultMaxAgeHours))

CacheSpec == SampleInit /\ [][CacheNext]_vars

-----------------------------------------------------------------------------
(* Client harness: a process asks its client for the token again and       *)
(* again while the clock advances.                                         *)
GetToken(cl, resp) ==
    LET r == get_app_token(token[cl], token_exp[cl], now, resp)
    IN /\ r.posted => tokenRequests < MaxRequests
       /\ token' = [token EXCEPT ![cl] = r.token]
       /\ token_exp' = [token_exp EXCEPT ![cl] = r.token_exp]
       /\ tokenRequests' = tokenRequests + (IF r.posted THEN 1 ELSE 0)
       /\ ret' = Call("token", cl, <<>>, r.exc, r.result)
       /\ UNCHANGED <<appVars, now, storeVars, failedPos, collectorVars>>

TokenNext ==
    \/ \E resp \in TokenResponses : GetToken("collector", resp)
    \/ \E d \in StepsOf(Seconds(TokenMarginSeconds)) :
          ClockAdvance(d, Seconds(TokenMarginSeconds))

TokenSpec == SampleInit /\ [][TokenNext]_vars

-----------------------------------------------------------------------------
(* The dashboard (src/app.py): script runs of the Twitch page.  app1 and   *)
(* app2 are two runs of the script, concurrent or one after the other:     *)
(* every run opens its own connection and its own client, looks the        *)
(* channel up, reads the cache and, when asked, refreshes the VOD summary. *)
UserA == [id |-> Some("1"), login |-> Some(<<"A">>)]
UserB == [id |-> Some("2"), login |-> Some(<<"b">>)]
UserPool == {UserA, UserB}

(* The answers of GET /users for a chunk of logins.                        *)
UsersResponses(chunk) ==
    {[ok |-> FALSE, data |-> {}]}
    \cup {[ok |-> TRUE, data |-> d] :
            d \in SUBSET {p \in UserPool :
                            \E i \in 1..Len(chunk) : chunk[i] = Lower(Val(p.login))}}

(* for u in data: out[u["login"].lower()] = u.                             *)
MergeUsers(old, data) ==
    LET keys == {Lower(Val(p.login)) : p \in data}
    IN [k \in DOMAIN old \cup keys |->
           IF k \in keys THEN CHOOSE p \in data : Lower(Val(p.login)) = k
           ELSE old[k]]

(* One iteration of the loop of get_users_by_logins.                       *)
UsersChunk(tok, exp, t, tokResp, apiResp, old) ==
    LET h == get_app_token(tok, exp, t, tokResp)
    IN IF h.exc # None
       THEN [token |-> h.token, token_exp |-> h.token_exp, posted |-> h.posted,
             exc |-> h.exc, out |-> old]
       ELSE IF ~apiResp.ok
       THEN [token |-> h.token, token_exp |-> h.token_exp, posted |-> h.posted,
             exc |-> Some("HTTPError"), out |-> old]
       ELSE [token |-> h.token, token_exp |-> h.token_exp, posted |-> h.posted,
             exc |-> None, out |-> MergeUsers(old, apiResp.data)]

(* get_vods_by_user_id(user_id, first) through api_get: the token for the  *)
(* headers, the GET, raise_for_status, j.get("data", []).                  *)
get_vods_by_user_id(tok, exp, t, tokResp, apiResp) ==
    LET h == get_app_token(tok, exp, t, tokResp)
    IN IF h.exc # None
       THEN [token |-> h.token, token_exp |-> h.token_exp, posted |-> h.posted,
             exc |-> h.exc, result |-> <<>>]
       ELSE IF ~apiResp.ok
       THEN [token |-> h.token, token_exp |-> h.token_exp, posted |-> h.posted,
             exc |-> Some("HTTPError"), result |-> <<>>]
       ELSE [token |-> h.token, token_exp |-> h.token_exp, posted |-> h.posted,
             exc |-> None, result |-> DictGetDefault(apiResp, "data", <<>>)]

Vod(views, duration) == [view_count |-> Some(views), duration |-> Some(duration)]

VodListings ==
    {<<>>,
     <<Vod(100, <<>>)>>,
     <<Vod(100, <<"1", "h">>)>>,
     <<Vod(100, <<"1", "h">>), Vod(300, <<"1", "h">>), Vod(200, <<"2", "h">>)>>}

(* The answers of GET /videos.                                             *)
VodsResponses ==
    {[ok |-> FALSE, data |-> None], [ok |-> TRUE, data |-> None]}
    \cup {[ok |-> TRUE, data |-> Some(l)] : l \in VodListings}

AppTokenResponses ==
    {r \in TokenResponses : r.access_token # "t2" /\ r.expires_in = None}

(* The test guarding the write of the refresh branch.                      *)
RefreshCondition(summary) ==
    /\ summary.vod_count > 0
    /\ summary.avg_vod_views # None
    /\ summary.views_per_hour # None

(* float(x or 0.0).                                                        *)
FloatOrZero(x) == IF x = None \/ Val(x)[1] = 0 THEN <<0, 1>> ELSE Val(x)

MaxAgeAfterRefresh == 999999

RefreshInit ==
    /\ now = StartTime
    /\ samples = init_db.samples
    /\ cache = init_db.cache
    /\ txnRows = init_db.txnRows
    /\ txnCache = init_db.txnCache
    /\ lock = init_db.lock
    /\ inTxn = init_db.inTxn
    /\ snap = init_db.snap
    /\ ret = Call("init", NoConn, <<>>, None, None)
    /\ failedPos = {}
    /\ token = NewClient.token
    /\ token_exp = NewClient.token_exp
    /\ tokenRequests = 0
    /\ CollectorNotStarted
    /\ has_creds \in BOOLEAN
    /\ AppIdle

(* A script run starts: conn = storage.connect(db_path) and init_db; tc =  *)
(* TwitchClient(...) when credentials are configured; the channel and the  *)
(* button are read.                                                        *)
RunStart(s, login, refresh) ==
    /\ apc[s] = "idle"
    /\ channel' = [channel EXCEPT ![s] = login]
    /\ refresh_vods' = [refresh_vods EXCEPT ![s] = refresh]
    /\ apc' = [apc EXCEPT ![s] = "stats"]
    /\ UNCHANGED <<now, storeVars, ret, failedPos, clientVars, collectorVars, has_creds,
                   u, vods, vs, vod_cached, outcome, stats, upsert_now, wrote>>

(* stats = storage.get_stream_stats_30d(conn, channel): the clock is read  *)
(* and the first SELECT runs.                                              *)
StatsLive(s) ==
    /\ apc[s] = "stats"
    /\ stats' = [stats EXCEPT ![s] =
           Some(StatsDict(SelectLiveStats(Db, s, channel[s], now), None))]
    /\ SetDb(Select(Db, s))
    /\ apc' = [apc EXCEPT ![s] = "stats_any"]
    /\ UNCHANGED <<now, ret, failedPos, clientVars, collectorVars, has_creds, channel,
                   refresh_vods, u, vods, vs, vod_cached, outcome, upsert_now, wrote>>

(* The second SELECT of get_stream_stats_30d, a read of its own, and the   *)
(* return.                                                                 *)
StatsAny(s) ==
    /\ apc[s] = "stats_any"
    /\ stats' = [stats EXCEPT ![s] =
           Some([Val(stats[s]) EXCEPT
                    !.last_any_sample_utc = SelectLastAny(Db, s, channel[s])])]
    /\ SetDb(Select(Db, s))
    /\ apc' = [apc EXCEPT ![s] = "live_now"]
    /\ UNCHANGED <<now, ret, failedPos, clientVars, collectorVars, has_creds, channel,
                   refresh_vods, u, vods, vs, vod_cached, outcome, upsert_now, wrote>>

(* Live now: tc.get_streams_by_logins([channel]) when there is a client,   *)
(* its exception swallowed.                                                *)
LiveNow(s, tokResp, apiResp) ==
    LET r == StreamsChunk(token[s], token_exp[s], now, tokResp, apiResp, EmptyMap)
    IN /\ apc[s] = "live_now"
       /\ IF has_creds
          THEN /\ token' = [token EXCEPT ![s] = r.token]
               /\ token_exp' = [token_exp EXCEPT ![s] = r.token_exp]
               /\ tokenRequests' = tokenRequests + (IF r.posted THEN 1 ELSE 0)
          ELSE UNCHANGED clientVars
       /\ apc' = [apc EXCEPT ![s] = "read_cache"]
       /\ UNCHANGED <<now, storeVars, ret, failedPos, collectorVars, has_creds, channel,
                      refresh_vods, u, vods, vs, vod_cached, outcome, stats, upsert_now,
                      wrote>>

(* The script run of session s moves to position pos.  When it ends, its   *)
(* locals and its client are gone: what stays is the page it rendered, the *)
(* statistics and the cached summary it read.                              *)
Locals(s, pos, user, listing, summary) ==
    /\ apc' = [apc EXCEPT ![s] = pos]
    /\ u' = [u EXCEPT ![s] = IF pos = "done" THEN None ELSE user]
    /\ vods' = [vods EXCEPT ![s] = IF pos = "done" THEN <<>> ELSE listing]
    /\ vs' = [vs EXCEPT ![s] = IF pos = "done" THEN None ELSE summary]

ClientOf(s, pos, r) ==
    /\ token' = [token EXCEPT ![s] = IF pos = "done" THEN None ELSE r.token]
    /\ token_exp' = [token_exp EXCEPT ![s] = IF pos = "done" THEN 0 ELSE r.token_exp]
    /\ tokenRequests' = tokenRequests + (IF r.posted THEN 1 ELSE 0)

NoRequest(s) == [token |-> token[s], token_exp |-> token_exp[s], posted |-> FALSE]

(* vod_cached = storage.get_cached_vod_summary(conn, channel, 12); the run *)
(* ends here unless the refresh was asked for.                             *)
ReadCache(s) ==
    LET pos == IF refresh_vods[s] THEN "refresh" ELSE "done"
    IN /\ apc[s] = "read_cache"
       /\ vod_cached' = [vod_cached EXCEPT ![s] =
              get_cached_vod_summary(Db, s, channel[s], DefaultMaxAgeHours, now)]
       /\ SetDb(Select(Db, s))
       /\ Locals(s, pos, u[s], vods[s], vs[s])
       /\ ClientOf(s, pos, NoRequest(s))
       /\ UNCHANGED <<now, ret, failedPos, collectorVars, has_creds,
                      channel, refresh_vods, outcome, stats, upsert_now, wrote>>

(* The refresh branch up to the user lookup: without a client an error;   *)
(* else users = tc.get_users_by_logins([channel]) and u =                  *)
(* users.get(channel).  Any exception is caught and reported.              *)
RefreshUsers(s, tokResp, apiResp) ==
    LET r == UsersChunk(token[s], token_exp[s], now, tokResp, apiResp, EmptyMap)
        found == r.exc = None /\ channel[s] \in DOMAIN r.out
        pos == IF has_creds /\ found THEN "vods" ELSE "done"
    IN /\ apc[s] = "refresh"
       /\ IF has_creds
          THEN /\ ClientOf(s, pos, r)
               /\ Locals(s, pos, IF found THEN Some(r.out[channel[s]]) ELSE None,
                         vods[s], vs[s])
               /\ outcome' = [outcome EXCEPT ![s] =
                      IF r.exc # None THEN "error"
                      ELSE IF ~found THEN "not_found" ELSE "none"]
          ELSE /\ ClientOf(s, pos, NoRequest(s))
               /\ Locals(s, pos, u[s], vods[s], vs[s])
               /\ outcome' = [outcome EXCEPT ![s] = "no_credentials"]
       /\ UNCHANGED <<now, storeVars, ret, failedPos, collectorVars, has_creds, channel,
                      refresh_vods, vod_cached, stats, upsert_now, wrote>>

(* vods = tc.get_vods_by_user_id(u["id"], first), vs = vod_summary(vods)   *)
(* and the test on vs: a warning when it fails.                            *)
RefreshVods(s, tokResp, apiResp) ==
    LET r == get_vods_by_user_id(token[s], token_exp[s], now, tokResp, apiResp)
        summary == vod_summary(r.result)
        pos == IF r.exc = None /\ RefreshCondition(summary) THEN "upsert" ELSE "done"
    IN /\ apc[s] = "vods"
       /\ ClientOf(s, pos, r)
       /\ Locals(s, pos, u[s], r.result, Some(summary))
       /\ outcome' = [outcome EXCEPT ![s] =
              IF r.exc # None THEN "error"
              ELSE IF RefreshCondition(summary) THEN "none" ELSE "insufficient"]
       /\ UNCHANGED <<now, storeVars, ret, failedPos, collectorVars, has_creds, channel,
                      refresh_vods, vod_cached, stats, upsert_now, wrote>>

(* storage.upsert_vod_summary, its first line: now =                       *)
(* datetime.now(timezone.utc).isoformat().                                 *)
RefreshUpsertNow(s) ==
    /\ apc[s] = "upsert"
    /\ upsert_now' = [upsert_now EXCEPT ![s] = Some(now)]
    /\ apc' = [apc EXCEPT ![s] = "execute"]
    /\ UNCHANGED <<now, storeVars, ret, failedPos, clientVars, collectorVars, has_creds,
                   channel, refresh_vods, u, vods, vs, vod_cached, outcome, stats,
                   wrote>>

(* storage.upsert_vod_summary, its INSERT ... ON CONFLICT statement, which *)
(* binds the timestamp read before: the write lock is taken, at once or    *)
(* when the connection that held it has committed, or the statement fails  *)
(* because another connection still holds it when the busy timeout ends,   *)
(* and the exception is caught and reported.                               *)
RefreshUpsertExecute(s) ==
    LET summary == Val(vs[s])
        e == UpsertExecute(Db, s, channel[s], summary.vod_count,
                           Val(summary.avg_vod_views),
                           FloatOrZero(summary.median_vod_views),
                           Val(summary.views_per_hour), Val(upsert_now[s]))
        pos == IF e.exc # None THEN "done" ELSE "commit"
    IN /\ apc[s] = "execute"
       /\ SetDb(e.db)
       /\ upsert_now' = [upsert_now EXCEPT ![s] = None]
       /\ Locals(s, pos, u[s], vods[s], vs[s])
       /\ ClientOf(s, pos, NoRequest(s))
       /\ outcome' = [outcome EXCEPT ![s] = IF e.exc # None THEN "error" ELSE "none"]
       /\ UNCHANGED <<now, ret, failedPos, collectorVars, has_creds, channel,
                      refresh_vods, vod_cached, stats, wrote>>

(* storage.upsert_vod_summary, its conn.commit(): it returns, or it raises *)
(* OperationalError with the transaction rolled back, and the exception is *)
(* caught and reported (app.py 378), which ends the run.                   *)
RefreshCommit(s, fails) ==
    LET pos == IF fails THEN "done" ELSE "reread"
    IN /\ apc[s] = "commit"
       /\ \E e \in {CommitOrFail(Db, s, fails)} : SetDb(e.db)
       /\ wrote' = [wrote EXCEPT ![s] = IF fails THEN wrote[s] ELSE vs[s]]
       /\ Locals(s, pos, u[s], vods[s], vs[s])
       /\ ClientOf(s, pos, NoRequest(s))
       /\ outcome' = [outcome EXCEPT ![s] = IF fails THEN "error" ELSE "none"]
       /\ UNCHANGED <<now, ret, failedPos, collectorVars, has_creds, channel,
                      refresh_vods, vod_cached, stats, upsert_now>>

(* vod_cached = storage.get_cached_vod_summary(conn, channel, 999999).     *)
RefreshReread(s) ==
    /\ apc[s] = "reread"
    /\ vod_cached' = [vod_cached EXCEPT ![s] =
           get_cached_vod_summary(Db, s, channel[s], MaxAgeAfterRefresh, now)]
    /\ SetDb(Select(Db, s))
    /\ Locals(s, "done", u[s], vods[s], vs[s])
    /\ ClientOf(s, "done", NoRequest(s))
    /\ UNCHANGED <<now, ret, failedPos, collectorVars, has_creds,
                   channel, refresh_vods, outcome, stats, upsert_now, wrote>>

RefreshClock == ClockAdvance(1, Hours(DefaultMaxAgeHours))

RefreshNext ==
    \/ \E s \in AppConns, login \in {LoginA, LoginB}, refresh \in BOOLEAN :
          RunStart(s, login, refresh)
    \/ \E s \in AppConns : StatsLive(s)
    \/ \E s \in AppConns : StatsAny(s)
    \/ \E s \in AppConns, tokResp \in AppTokenResponses :
          \E apiResp \in StreamsResponses(<<channel[s]>>) : LiveNow(s, tokResp, apiResp)
    \/ \E s \in AppConns : ReadCache(s)
    \/ \E s \in AppConns, tokResp \in AppTokenResponses :
          \E apiResp \in UsersResponses(<<channel[s]>>) : RefreshUsers(s, tokResp, apiResp)
    \/ \E s \in AppConns, tokResp \in AppTokenResponses, apiResp \in VodsResponses :
          RefreshVods(s, tokResp, apiResp)
    \/ \E s \in AppConns : RefreshUpsertNow(s)
    \/ \E s \in AppConns : RefreshUpsertExecute(s)
    \/ \E s \in AppConns, fails \in BOOLEAN : RefreshCommit(s, fails)
    \/ \E s \in AppConns : RefreshReread(s)
    \/ RefreshClock

RefreshSpec == RefreshInit /\ [][RefreshNext]_vars

-----------------------------------------------------------------------------
(* Projections (src/src/projections.py).  Floats are exact quotients.      *)
RatMul(a, b) == Rat(a[1] * b[1], a[2] * b[2])

(* float(peak_30d) if peak_30d is not None else None.                      *)
FloatOfOptional(x) == IF x = None THEN None ELSE Some(Rat(Val(x), 1))

project_twitchVodWithoutAvg(planned_hours, avg_viewers_30d, peak_30d, churn_factor, vod_views_per_hour) ==
    [projected_avg_viewers |-> avg_viewers_30d,
     projected_peak |-> FloatOfOptional(peak_30d),
     projected_hours_watched |->
         IF avg_viewers_30d = None THEN None
         ELSE Some(RatMul(Val(avg_viewers_30d), planned_hours)),
     projected_unique_views |->
         IF avg_viewers_30d = None THEN None
         ELSE Some(RatMul(RatMul(Val(avg_viewers_30d), planned_hours), churn_factor)),
     projected_vod_views |->
         IF vod_views_per_hour = None THEN None
         ELSE Some(RatMul(Val(vod_views_per_hour), planned_hours))]

project_twitch(planned_hours, avg_viewers_30d, peak_30d, churn_factor, vod_views_per_hour) ==
    IF avg_viewers_30d = None
    THEN [projected_avg_viewers |-> None,
          projected_peak |-> FloatOfOptional(peak_30d),
          projected_hours_watched |-> None,
          projected_unique_views |-> None,
          projected_vod_views |-> None]
    ELSE [projected_avg_viewers |-> avg_viewers_30d,
          projected_peak |-> FloatOfOptional(peak_30d),
          projected_hours_watched |-> Some(RatMul(Val(avg_viewers_30d), planned_hours)),
          projected_unique_views |->
              Some(RatMul(RatMul(Val(avg_viewers_30d), planned_hours), churn_factor)),
          projected_vod_views |->
              IF vod_views_per_hour = None THEN None
              ELSE Some(RatMul(Val(vod_views_per_hour), planned_hours))]

DefaultChurnFactor == <<5, 2>>

PlannedHours == {<<0, 1>>, <<1, 2>>, <<3, 1>>, <<20, 1>>}
AvgViewers == {None, Some(<<0, 1>>), Some(<<3, 2>>), Some(<<1000, 1>>)}
PeakViewers == {None, Some(0), Some(5000)}
ChurnFactors == {DefaultChurnFactor, <<1, 1>>, <<0, 1>>}
VodRates == {None, Some(<<0, 1>>), Some(<<150, 1>>), Some(<<802, 3>>)}

(* proj = project_twitch(...), the call and what it returned.              *)
ProjectTwitch(planned_hours, avg_viewers_30d, peak_30d, churn_factor, vod_views_per_hour) ==
    /\ ret' = Call("project_twitch", NoConn,
                   <<planned_hours, avg_viewers_30d, peak_30d, churn_factor,
                     vod_views_per_hour>>,
                   None,
                   project_twitch(planned_hours, avg_viewers_30d, peak_30d,
                                  churn_factor, vod_views_per_hour))
    /\ UNCHANGED <<appVars, now, storeVars, failedPos, clientVars, collectorVars>>

ProjectionNext ==
    \E planned_hours \in PlannedHours, avg_viewers_30d \in AvgViewers,
       peak_30d \in PeakViewers, churn_factor \in ChurnFactors,
       vod_views_per_hour \in VodRates :
          ProjectTwitch(planned_hours, avg_viewers_30d, peak_30d, churn_factor,
                        vod_views_per_hour)

ProjectionSpec == SampleInit /\ [][ProjectionNext]_vars

-----------------------------------------------------------------------------
(* Pure functions of the dashboard and the collector: ret holds the input  *)
(* drawn, then the call and what it returned.                              *)
Input(x) == Call("input", NoConn, <<x>>, None, None)

PureInit(inputs) ==
    /\ ret \in {Input(x) : x \in inputs}
    /\ now = StartTime
    /\ samples = init_db.samples
    /\ cache = init_db.cache
    /\ txnRows = init_db.txnRows
    /\ txnCache = init_db.txnCache
    /\ lock = init_db.lock
    /\ inTxn = init_db.inTxn
    /\ snap = init_db.snap
    /\ failedPos = {}
    /\ token = NewClient.token
    /\ token_exp = NewClient.token_exp
    /\ tokenRequests = 0
    /\ CollectorNotStarted
    /\ AppNotStarted

PureCall(op, result) ==
    /\ ret.op = "input"
    /\ ret' = Call(op, NoConn, ret.args, None, result)
    /\ UNCHANGED <<appVars, now, storeVars, failedPos, clientVars, collectorVars>>

(* VOD listings for vod_summary, of at most MaxVods records.               *)
MaxVods == 3

VodPool ==
    {Vod(100, <<"1", "h">>), Vod(300, <<"1", "h">>), Vod(200, <<"2", "h">>),
     Vod(100, <<>>), Vod(0, <<"4", "5", "m">>),
     Vod(50, <<"1", "h", "2", "m", "3", "s">>),
     Vod(7, <<"x", "1", "2", "s", "h">>),
     [view_count |-> None, duration |-> None]}

RECURSIVE SeqsUpTo(_, _)
SeqsUpTo(pool, n) ==
    IF n = 0 THEN {<<>>}
    ELSE LET shorter == SeqsUpTo(pool, n - 1)
         IN shorter \cup {Append(q, x) : q \in {r \in shorter : Len(r) = n - 1}, x \in pool}

VodSummaryCall == PureCall("vod_summary", vod_summary(ret.args[1]))

VodSpec ==
    /\ PureInit(SeqsUpTo(VodPool, MaxVods))
    /\ [][VodSummaryCall]_vars

(* normalize_twitch_login (src/app.py), on a text as its characters.       *)
Whitespace == {" ", "\t", "\n"}

(* s.strip() and s.strip("/"): the text without its leading and trailing   *)
(* characters of the set.                                                  *)
Strip(text, chars) ==
    LET kept == {i \in 1..Len(text) : text[i] \notin chars}
    IN IF kept = {} THEN <<>>
       ELSE SubSeq(text, CHOOSE i \in kept : \A k \in kept : i <= k,
                         CHOOSE j \in kept : \A k \in kept : j >= k)

IsPrefix(p, text) == Len(p) <= Len(text) /\ SubSeq(text, 1, Len(p)) = p

Scheme == <<"h", "t", "t", "p">>
SchemeEnd == <<":", "/", "/">>
Www == <<"w", "w", "w", ".">>
Host == <<"t", "w", "i", "t", "c", "h", ".", "t", "v", "/">>

(* The texts ^https?://(www\.)?twitch\.tv/ matches.                        *)
UrlPrefixes ==
    {Scheme \o sec \o SchemeEnd \o www \o Host : sec \in {<<>>, <<"s">>}, www \in {<<>>, Www}}

StripUrlSecureOnly(text) ==
    LET ps == {p \in UrlPrefixes : IsPrefix(p, text) /\ p[5] = "s"}
    IN IF ps = {} THEN text
       ELSE LET p == CHOOSE q \in ps : TRUE IN SubSeq(text, Len(p) + 1, Len(text))

(* re.sub(r"^https?://(www\.)?twitch\.tv/", "", s).                        *)
StripUrl(text) ==
    LET ps == {p \in UrlPrefixes : IsPrefix(p, text)}
    IN IF ps = {} THEN text
       ELSE LET p == CHOOSE q \in ps : TRUE IN SubSeq(text, Len(p) + 1, Len(text))

(* s.split("?")[0].                                                        *)
BeforeQuery(text) ==
    LET qs == {i \in 1..Len(text) : text[i] = "?"}
    IN IF qs = {} THEN text
       ELSE SubSeq(text, 1, (CHOOSE i \in qs : \A k \in qs : i <= k) - 1)

normalize_twitch_login(text) ==
    IF text = <<>> THEN <<>>
    ELSE LET lowered == Lower(Strip(text, Whitespace))
             path == Strip(BeforeQuery(StripUrl(lowered)), {"/"})
         IN SelectSeq(path, LAMBDA ch : ch # "@")

(* Raw channel identifiers: the spellings of a login, bare or after a      *)
(* Twitch URL, with or without '@' before the login, the whole in any      *)
(* case and inside whitespace; and some texts of other shapes.             *)
CanonicalLogins == {<<"a">>, <<"a", "b">>, <<"b", "_", "1">>}

UpperChar(ch) ==
    IF \E up \in {"A", "B", "C", "H", "I", "P", "S", "T", "V", "W"} : LowerChar(up) = ch
    THEN CHOOSE up \in {"A", "B", "C", "H", "I", "P", "S", "T", "V", "W"} : LowerChar(up) = ch
    ELSE ch

Spellings(text) ==
    {t \in [1..Len(text) -> {text[i] : i \in 1..Len(text)}
                              \cup {UpperChar(text[i]) : i \in 1..Len(text)}] :
        \A i \in 1..Len(text) : t[i] \in {text[i], UpperChar(text[i])}}

Upper(text) == [i \in 1..Len(text) |-> UpperChar(text[i])]

Paddings == {<<<<>>, <<>>>>, <<<<" ">>, <<>>>>, <<<<>>, <<" ">>>>, <<<<" ", "\t">>, <<"\n">>>>}

Variants(login) ==
    {pad[1] \o url \o at \o name \o pad[2] :
        pad \in Paddings,
        url \in {<<>>} \cup UrlPrefixes \cup {Upper(p) : p \in UrlPrefixes},
        at \in {<<>>, <<"@">>},
        name \in Spellings(login)}

OtherTexts ==
    {<<>>, <<" ">>, <<"a", "/">>, <<"a", "?", "b">>, <<"@", " ", "a">>,
     <<"@">> \o Scheme \o SchemeEnd \o Host \o <<"a">>,
     Host \o <<"a">>,
     Scheme \o SchemeEnd \o Host \o <<"a", "/", "?", "x">>}

RawTexts == UNION {Variants(login) : login \in CanonicalLogins} \cup OtherTexts

NormalizeCall == PureCall("normalize_twitch_login", normalize_twitch_login(ret.args[1]))

NormalizeSpec ==
    /\ PureInit(RawTexts)
    /\ [][NormalizeCall]_vars

-----------------------------------------------------------------------------
(* The two chunked lookups of the client, get_streams_by_logins and        *)
(* get_users_by_logins, called on a list of logins: cpc is the method      *)
(* running, then "returned" or "raised"; channels is the list, live_map    *)
(* the map returned.                                                       *)
LookupMethods == {"get_streams_by_logins", "get_users_by_logins"}

ListOfLength(n) ==
    [i \in 1..n |-> IF i = 1 THEN LoginA ELSE IF i = n THEN LoginB ELSE FillerLogin(i)]

LookupLists ==
    {ListOfLength(n) : n \in {0, 1, 2, chunk_size, chunk_size + 1,
                              2 * chunk_size, 2 * chunk_size + 1}}
    \cup {<<<<"A">>, LoginB>>, <<LoginB, LoginA, LoginB>>}

LookupInit ==
    /\ now = StartTime
    /\ samples = init_db.samples
    /\ cache = init_db.cache
    /\ txnRows = init_db.txnRows
    /\ txnCache = init_db.txnCache
    /\ lock = init_db.lock
    /\ inTxn = init_db.inTxn
    /\ snap = init_db.snap
    /\ ret = Call("init", NoConn, <<>>, None, None)
    /\ failedPos = {}
    /\ token = NewClient.token
    /\ token_exp = NewClient.token_exp
    /\ tokenRequests = 0
    /\ cpc \in LookupMethods
    /\ channels \in LookupLists
    /\ ts = IsoFormat(0)
    /\ chunkAt = 0
    /\ out = EmptyMap
    /\ live_map = EmptyMap
    /\ rows = <<>>
    /\ ticks = 0
    /\ savedTicks = 0
    /\ sent = <<>>
    /\ AppNotStarted

LookupResponses(method, chunk) ==
    IF method = "get_streams_by_logins" THEN StreamsResponses(chunk)
    ELSE UsersResponses(chunk)

(* if not logins: return {}.                                               *)
LoginsEmpty ==
    /\ cpc \in LookupMethods
    /\ channels = <<>>
    /\ cpc' = "returned"
    /\ live_map' = EmptyMap
    /\ ret' = Call(cpc, "collector", <<>>, None, None)
    /\ UNCHANGED <<appVars, now, storeVars, failedPos, clientVars, channels, ts, chunkAt,
                   out, rows, ticks, savedTicks, sent>>

(* One iteration of the loop of the method at index chunkAt; after the     *)
(* last one, return out.  An exception leaves the method.                  *)
LoginsChunk(tokResp, apiResp) ==
    LET r == IF cpc = "get_streams_by_logins"
             THEN StreamsChunk(token["collector"], token_exp["collector"], now,
                               tokResp, apiResp, out)
             ELSE UsersChunk(token["collector"], token_exp["collector"], now,
                             tokResp, apiResp, out)
        last == chunkAt + chunk_size >= Len(channels)
    IN /\ cpc \in LookupMethods
       /\ channels # <<>>
       /\ token' = [token EXCEPT !["collector"] = r.token]
       /\ token_exp' = [token_exp EXCEPT !["collector"] = r.token_exp]
       /\ tokenRequests' = tokenRequests + (IF r.posted THEN 1 ELSE 0)
       /\ out' = r.out
       /\ sent' = IF RequestSent(token["collector"], token_exp["collector"], now, tokResp)
                  THEN Append(sent, ChunkOf(channels, chunkAt)) ELSE sent
       /\ chunkAt' = IF r.exc = None THEN chunkAt + chunk_size ELSE chunkAt
       /\ live_map' = IF r.exc = None /\ last THEN r.out ELSE live_map
       /\ cpc' = IF r.exc # None THEN "raised"
                 ELSE IF last THEN "returned" ELSE cpc
       /\ ret' = Call(cpc, "collector", <<tokResp, apiResp>>, r.exc, None)
       /\ UNCHANGED <<appVars, now, storeVars, failedPos, channels, ts, rows, ticks,
                      savedTicks>>

LookupNext ==
    \/ LoginsEmpty
    \/ \E tokResp \in CollectorTokenResponses :
          \E apiResp \in LookupResponses(cpc, ChunkOf(channels, chunkAt)) :
              LoginsChunk(tokResp, apiResp)

LookupSpec == LookupInit /\ [][LookupNext]_vars

-----------------------------------------------------------------------------
(* The channels file, read by the collector (read_channels_file) and by    *)
(* the dashboard (load_streamers_file).  A file is the sequence of its     *)
(* lines, or None when it does not exist.                                  *)
MaxLines == 3

(* The first loop: s = line.strip(); kept when not empty and not starting  *)
(* with '#', as s.lower().                                                 *)
RECURSIVE FileEntries(_)
FileEntries(lines) ==
    IF lines = <<>> THEN <<>>
    ELSE LET line == Strip(lines[1], Whitespace)
         IN (IF line # <<>> /\ line[1] # "#" THEN <<Lower(line)>> ELSE <<>>)
            \o FileEntries(Tail(lines))

RECURSIVE UniqKeepLast(_)
UniqKeepLast(xs) ==
    IF xs = <<>> THEN <<>>
    ELSE LET rest == UniqKeepLast(Tail(xs))
         IN IF \E i \in 1..Len(rest) : rest[i] = xs[1] THEN rest ELSE <<xs[1]>> \o rest

(* The second loop: every entry not seen yet is appended.                  *)
RECURSIVE UniqFrom(_, _)
UniqFrom(xs, uniq) ==
    IF xs = <<>> THEN uniq
    ELSE UniqFrom(Tail(xs),
                  IF \E i \in 1..Len(uniq) : uniq[i] = xs[1] THEN uniq
                  ELSE Append(uniq, xs[1]))

Uniq(xs) == UniqFrom(xs, <<>>)

read_channels_file(file) ==
    IF file = None THEN [exc |-> Some("FileNotFoundError"), result |-> None]
    ELSE [exc |-> None, result |-> Some(Uniq(FileEntries(Val(file))))]

load_streamers_file(file) ==
    IF file = None THEN [exc |-> None, result |-> Some(<<>>)]
    ELSE [exc |-> None, result |-> Some(Uniq(FileEntries(Val(file))))]

LinePool ==
    {<<"a", "\n">>, <<"A", "\n">>, <<" ", "a", " ", "\n">>, <<"b">>, <<"\n">>,
     <<" ", "\t", "\n">>, <<"#", "a", "\n">>, <<" ", "#", "b", "\n">>,
     <<"B", " ", "#", "\n">>}

ChannelsFiles == {None} \cup {Some(lines) : lines \in SeqsUpTo(LinePool, MaxLines)}

ReadChannelsFile ==
    LET r == read_channels_file(ret.args[1])
    IN /\ ret.op = "input"
       /\ ret' = Call("read_channels_file", NoConn, ret.args, r.exc, r.result)
       /\ UNCHANGED <<appVars, now, storeVars, failedPos, clientVars, collectorVars>>

LoadStreamersFile ==
    LET r == load_streamers_file(ret.args[1])
    IN /\ ret.op = "input"
       /\ ret' = Call("load_streamers_file", NoConn, ret.args, r.exc, r.result)
       /\ UNCHANGED <<appVars, now, storeVars, failedPos, clientVars, collectorVars>>

ChannelsFileNext == ReadChannelsFile \/ LoadStreamersFile

ChannelsFileSpec ==
    /\ PureInit(ChannelsFiles)
    /\ [][ChannelsFileNext]_vars

-----------------------------------------------------------------------------
(* The deployment: the collector process and a dashboard script run on the *)
(* same database, each on its own connection.                              *)
SystemInit ==
    /\ now = StartTime
    /\ samples = init_db.samples
    /\ cache = init_db.cache
    /\ txnRows = init_db.txnRows
    /\ txnCache = init_db.txnCache
    /\ lock = init_db.lock
    /\ inTxn = init_db.inTxn
    /\ snap = init_db.snap
    /\ ret = Call("init", NoConn, <<>>, None, None)
    /\ failedPos = {}
    /\ token = NewClient.token
    /\ token_exp = NewClient.token_exp
    /\ tokenRequests = 0
    /\ cpc = "tick"
    /\ channels = ShortList
    /\ ts = IsoFormat(0)
    /\ chunkAt = 0
    /\ out = EmptyMap
    /\ live_map = EmptyMap
    /\ rows = <<>>
    /\ ticks = 0
    /\ savedTicks = 0
    /\ sent = <<>>
    /\ has_creds = TRUE
    /\ AppIdle

SystemSession == "app1"

SystemTokenResponses == {r \in AppTokenResponses : r.ok}

SystemNext ==
    \/ CollectorStep
    \/ \E refresh \in BOOLEAN : RunStart(SystemSession, LoginA, refresh)
    \/ StatsLive(SystemSession)
    \/ StatsAny(SystemSession)
    \/ \E tokResp \in SystemTokenResponses :
          \E apiResp \in StreamsResponses(<<channel[SystemSession]>>) :
              LiveNow(SystemSession, tokResp, apiResp)
    \/ ReadCache(SystemSession)
    \/ \E tokResp \in SystemTokenResponses :
          \E apiResp \in UsersResponses(<<channel[SystemSession]>>) :
              RefreshUsers(SystemSession, tokResp, apiResp)
    \/ \E tokResp \in SystemTokenResponses, apiResp \in VodsResponses :
          RefreshVods(SystemSession, tokResp, apiResp)
    \/ RefreshUpsertNow(SystemSession)
    \/ RefreshUpsertExecute(SystemSession)
    \/ \E fails \in BOOLEAN : RefreshCommit(SystemSession, fails)
    \/ RefreshReread(SystemSession)

SystemSpec == SystemInit /\ [][SystemNext]_vars

-----------------------------------------------------------------------------
(* Rolling statistics (C7).                                                *)

(* A query text and the channel it names.                                  *)
QueryChannel ==
    {<<(<<"a">>), LoginA>>, <<(<<"A">>), LoginA>>, <<(<<"b">>), LoginB>>}

RECURSIVE SumOver(_, _)
SumOver(S, f) ==
    IF S = {} THEN 0
    ELSE LET x == CHOOSE y \in S : TRUE IN f[x] + SumOver(S \ {x}, f)

(* The rowids of a channel's rows, and of its live rows inside the window. *)
ChannelRowIds(chan) == {i \in 1..Len(samples) : samples[i][2] = chan}
WindowLiveRowIds(chan) ==
    {i \in ChannelRowIds(chan) :
        /\ samples[i][3] = 1
        /\ FromIsoFormat(samples[i][1]) >= now - Days(WindowDays)}

IsLatest(o, ids) ==
    IF ids = {} THEN o = None
    ELSE /\ o # None
         /\ \E i \in ids : samples[i][1] = Val(o)
         /\ \A i \in ids : FromIsoFormat(samples[i][1]) <= FromIsoFormat(Val(o))

StatsAsClaimed(st, chan) ==
    LET live == WindowLiveRowIds(chan)
        viewers == [i \in live |-> samples[i][4]]
    IN /\ st.live_samples_30d = Cardinality(live)
       /\ live = {} => st.avg_viewers_30d = None /\ st.peak_viewers_30d = None
       /\ live # {} =>
            /\ st.avg_viewers_30d # None
            /\ Val(st.avg_viewers_30d)[2] > 0
            /\ Val(st.avg_viewers_30d)[1] * Cardinality(live)
                 = SumOver(live, viewers) * Val(st.avg_viewers_30d)[2]
            /\ st.peak_viewers_30d # None
            /\ \E i \in live : viewers[i] = Val(st.peak_viewers_30d)
            /\ \A i \in live : viewers[i] <= Val(st.peak_viewers_30d)
       /\ IsLatest(st.last_live_sample_utc, live)
       /\ IsLatest(st.last_any_sample_utc, ChannelRowIds(chan))

(* The sample log of the example: offline, live 100, live 300, in window.  *)
ExampleLog(chan) ==
    /\ Len(samples) = 3
    /\ \A i \in 1..3 :
          /\ samples[i][2] = chan
          /\ FromIsoFormat(samples[i][1]) >= now - Days(WindowDays)
    /\ <<samples[1][3], samples[1][4]>> = <<0, 0>>
    /\ <<samples[2][3], samples[2][4]>> = <<1, 100>>
    /\ <<samples[3][3], samples[3][4]>> = <<1, 300>>

(* C7: on every connection and for every spelling of a channel,            *)
(* get_stream_stats_30d counts, averages and maximises only the channel's  *)
(* live rows of the last 30 days (nulls and 0 when there is none), while   *)
(* last_any_sample is the latest timestamp of all rows of the channel; the *)
(* log offline/100/300 gives count 2, average 200, peak 300.               *)
C7_RollingStats ==
    \A c \in {Writer, Reader} : \A qc \in QueryChannel :
        LET st == get_stream_stats_30d(Db, c, qc[1], now)
        IN /\ StatsAsClaimed(st, qc[2])
           /\ ExampleLog(qc[2]) =>
                /\ st.live_samples_30d = 2
                /\ Val(st.avg_viewers_30d)[1] = 200 * Val(st.avg_viewers_30d)[2]
                /\ st.peak_viewers_30d = Some(300)

(* The example log, its rows at three different times, one of them a       *)
(* whole window before now.                                                *)
C7_Witness ==
    /\ ExampleLog(LoginA)
    /\ FromIsoFormat(samples[1][1]) = now - Days(WindowDays)
    /\ FromIsoFormat(samples[1][1]) < FromIsoFormat(samples[2][1])
    /\ FromIsoFormat(samples[2][1]) < FromIsoFormat(samples[3][1])

(* Batch atomicity (C9).                                                   *)

(* C9: no row of a batch whose insert_stream_samples call failed is ever   *)
(* among the committed rows of stream_samples, and an empty batch leaves   *)
(* the store as it was.                                                    *)
C9_BatchAtomic ==
    \A i \in failedPos : i > Len(samples)


(* The VOD cache (C5, C6).                                                 *)
EntriesOf(chan) == {r \in cache : r.user_login = chan}

ReadAsClaimed(res, chan, h) ==
    /\ res = None <=>
          \/ EntriesOf(chan) = {}
          \/ \E r \in EntriesOf(chan) :
                now - FromIsoFormat(r.updated_at_utc) > Hours(h)
    /\ res # None =>
          \E r \in EntriesOf(chan) :
              /\ Val(res).updated_at_utc = r.updated_at_utc
              /\ Val(res).vod_count = r.vod_count
              /\ Val(res).avg_vod_views = r.avg_vod_views
              /\ Val(res).median_vod_views = r.median_vod_views
              /\ Val(res).views_per_hour = r.views_per_hour

(* C5: get_cached_vod_summary, on every connection that can call it,      *)
(* returns null exactly when the lowercased channel has no entry or the    *)
(* entry is older than max_age, and the stored entry otherwise, an age     *)
(* equal to max_age included; a read changes no entry.                     *)
C5_CachedRead ==
    /\ [](\A c \in AppConns : \A qc \in QueryChannel : \A h \in HarnessMaxAges :
            apc[c] = "idle" =>
               ReadAsClaimed(get_cached_vod_summary(Db, c, qc[1], h, now), qc[2], h))
    /\ [][ret'.op = "read" =>
            /\ cache' = cache
            /\ \E qc \in QueryChannel :
                  /\ qc[1] = ret'.args[1]
                  /\ ReadAsClaimed(ret'.result, qc[2], ret'.args[2])]_vars

(* A read at an age of exactly max_age returns the entry.                  *)
C5_Witness ==
    /\ ret.op = "read"
    /\ ret.args[2] = DefaultMaxAgeHours
    /\ ret.result # None
    /\ now - FromIsoFormat(Val(ret.result).updated_at_utc) = Hours(DefaultMaxAgeHours)

(* The step in which a call of upsert_vod_summary returns.                 *)
UpsertReturns ==
    \E c \in AppConns :
       /\ apc[c] = "commit" /\ apc'[c] = "idle"
       /\ ret'.op = "upsert" /\ ret'.exc = None

(* C6: the cache holds at most one entry per lowercased login; an upsert   *)
(* that returns leaves the channel's entry with exactly the values of that *)
(* upsert and the time it read, and every other entry unchanged; an upsert *)
(* that raises and every other step leave the cache as it was.             *)
C6_UpsertLatest ==
    /\ [](\A r1, r2 \in cache :
            Lower(r1.user_login) = Lower(r2.user_login) => r1 = r2)
    /\ [][/\ UpsertReturns =>
               \E qc \in QueryChannel :
                  /\ qc[1] = ret'.args[1]
                  /\ EntriesOf(qc[2])' =
                       {[user_login |-> qc[2],
                         updated_at_utc |-> IsoFormat(ret'.args[3]),
                         vod_count |-> ret'.args[2].vod_count,
                         avg_vod_views |-> ret'.args[2].avg_vod_views,
                         median_vod_views |-> ret'.args[2].median_vod_views,
                         views_per_hour |-> ret'.args[2].views_per_hour]}
                  /\ cache' \ EntriesOf(qc[2])' = cache \ EntriesOf(qc[2])
          /\ ~UpsertReturns => cache' = cache]_vars

(* An upsert has replaced an older entry of its channel, with other values *)
(* and under another spelling, next to an entry of another channel; it     *)
(* returned after the clock had moved on from the time it read.            *)
C6_Witness ==
    /\ ret.op = "upsert"
    /\ ret.exc = None
    /\ ret.args[3] < now
    /\ ret.args[1] = <<"A">>
    /\ Cardinality(cache) = 2
    /\ \E r \in EntriesOf(LoginA) :
          /\ r.vod_count = ret.args[2].vod_count
          /\ FromIsoFormat(r.updated_at_utc) > StartTime
    /\ \E r \in EntriesOf(LoginB) : r.vod_count # ret.args[2].vod_count


(* The token getter (C8).                                                  *)
CachedUsable(cl) ==
    token[cl] # None /\ now < token_exp[cl] - Seconds(TokenMarginSeconds)

TokenRequestIff ==
    [][ret'.op = "token" =>
         /\ tokenRequests' = tokenRequests + (IF CachedUsable(ret'.conn) THEN 0 ELSE 1)
         /\ CachedUsable(ret'.conn) =>
               /\ ret'.exc = None /\ ret'.result = token[ret'.conn]
               /\ token' = token /\ token_exp' = token_exp]_vars

(* C8 as stated: a request is made exactly when no token is cached or the  *)
(* time is within 60 seconds of the cached expiry, and no token at all is  *)
(* handed out at a time within 60 seconds of its expiry.                   *)
C8_Original ==
    /\ TokenRequestIff
    /\ [][ret'.op = "token" /\ ret'.exc = None =>
            now < token_exp'[ret'.conn] - Seconds(TokenMarginSeconds)]_vars

(* C8 amended: a request is made exactly when no token is cached or the    *)
(* time is within 60 seconds of the cached expiry; otherwise the cached    *)
(* token is returned and nothing changes, so a token is returned from the  *)
(* cache only at a time more than 60 seconds before its expiry.            *)
C8_TokenRenewal ==
    /\ TokenRequestIff
    /\ [][ret'.op = "token" /\ tokenRequests' = tokenRequests =>
            /\ ret'.exc = None /\ ret'.result = token'[ret'.conn]
            /\ now < token_exp'[ret'.conn] - Seconds(TokenMarginSeconds)]_vars

(* A second call, later and still more than 60 seconds before the expiry,  *)
(* has returned the token of the one acquisition made.                     *)
C8_Witness ==
    /\ ret.op = "token"
    /\ ret.exc = None
    /\ tokenRequests = 1
    /\ now > StartTime
    /\ now = token_exp["collector"] - Seconds(TokenMarginSeconds) - 1


(* The collector (C1, C2, C3).                                             *)
SampleAsClaimed(row, login, map, t) ==
    IF login \in DOMAIN map
    THEN /\ row[1] = t /\ row[2] = login /\ row[3] = 1
         /\ row[4] = (IF map[login].viewer_count = None THEN 0
                      ELSE Val(map[login].viewer_count))
         /\ row[5] = map[login].game_name
         /\ row[6] = map[login].title
         /\ row[7] = map[login].started_at
         /\ row[8] = map[login].id
    ELSE row = <<t, login, 0, 0, None, None, None, None>>

(* C1: the write of a tick whose lookup succeeded appends to the store     *)
(* exactly one sample per configured channel, in the order of the list:    *)
(* live with the payload's viewer count and metadata for a channel in the  *)
(* lookup result, offline with 0 viewers and null metadata for any other.  *)
C1_OneSamplePerChannel ==
    [][cpc = "commit" /\ cpc' = "sleep_after_save" =>
         /\ Len(samples') = Len(samples) + Len(channels)
         /\ SubSeq(samples', 1, Len(samples)) = samples
         /\ \A i \in 1..Len(channels) :
               SampleAsClaimed(samples'[Len(samples) + i], channels[i], live_map, ts)]_vars

(* A tick of the two-chunk list has been saved, the channel of the first   *)
(* chunk live and the channel of the second one offline.                   *)
C1_Witness ==
    /\ cpc = "sleep_after_save"
    /\ Len(channels) > chunk_size
    /\ DOMAIN live_map = {LoginA}
    /\ samples = rows
    /\ samples[1][3] = 1
    /\ samples[Len(channels)][3] = 0

(* C2: a failing lookup request (the token request or the GET, of the      *)
(* first chunk or of a later one) takes the collector to the sleep of the  *)
(* except branch with the store untouched; nothing is written before the   *)
(* next tick, the process does not exit, and the next tick's lookup        *)
(* follows.                                                                *)
C2_LookupFailureSkipsTick ==
    /\ [][ret'.op = "lookup" /\ ret'.exc # None =>
            /\ cpc' = "sleep_after_error"
            /\ samples' = samples /\ txnRows' = txnRows]_vars
    /\ [][cpc = "sleep_after_error" =>
            /\ cpc' = "tick"
            /\ samples' = samples /\ txnRows' = txnRows]_vars
    /\ [](cpc = "sleep_after_error" => Len(samples) = savedTicks * Len(channels))
    /\ (cpc = "sleep_after_error" /\ ticks < MaxTicks) ~> (cpc = "lookup")

(* The lookup has failed on the second chunk after the first chunk         *)
(* reported a live stream.                                                 *)
C2_Witness ==
    /\ cpc = "sleep_after_error"
    /\ chunkAt > 0
    /\ DOMAIN out = {LoginA}
    /\ ret.exc = Some("HTTPError")

(* C3: a failing storage write does not end the collector process.         *)
C3_SurvivesStorageFailure ==
    ret.op = "insert" /\ ret.exc # None => cpc # "exited"



(* The VOD refresh (C4, C10).                                              *)
RefreshFailures == {"no_credentials", "not_found", "error", "insufficient"}

(* The run of session s found the user of its channel and a listing with   *)
(* VODs and hours, and its aggregate has the three values.                 *)
RefreshSucceeded(s) ==
    /\ has_creds
    /\ refresh_vods[s]
    /\ u[s] # None
    /\ Lower(Val(Val(u[s]).login)) = channel[s]
    /\ Len(vods[s]) > 0
    /\ SumSeq(VodSeconds(vods[s])) > 0
    /\ vs[s] # None
    /\ Val(vs[s]).vod_count > 0
    /\ Val(vs[s]).avg_vod_views # None
    /\ Val(vs[s]).views_per_hour # None

(* C4: the cache table changes only in the commit of a run whose user      *)
(* lookup, VOD listing and aggregate all succeeded, with vod_count > 0 and *)
(* non-null avg_vod_views and views_per_hour, and then only in the entry   *)
(* of the run's channel; a run that ends without credentials, with the     *)
(* channel not found, a failed request, an empty listing or zero hours has *)
(* written nothing and leaves no write pending.                            *)
C4_RefreshWritesOnSuccessOnly ==
    /\ [][cache' # cache =>
            \E s \in AppConns :
               /\ apc[s] = "commit" /\ apc'[s] = "reread"
               /\ RefreshSucceeded(s)
               /\ {r \in cache' : r.user_login # channel[s]}
                    = {r \in cache : r.user_login # channel[s]}]_vars
    /\ [](\A s \in AppConns :
            /\ outcome[s] \in RefreshFailures =>
                  apc[s] = "done" /\ wrote[s] = None /\ txnCache[s] = None
            /\ txnCache[s] # None => apc[s] = "commit" /\ RefreshSucceeded(s))

(* One run has refreshed the channel; the other, on a listing without      *)
(* hours, has ended with the warning, the entry being that of the first.   *)
C4_Witness ==
    \E s, t \in AppConns :
       /\ s # t
       /\ channel[s] = channel[t]
       /\ apc[s] = "done" /\ wrote[s] # None
       /\ apc[t] = "done" /\ outcome[t] = "insufficient"
       /\ \E r \in cache : r.user_login = channel[s] /\ r.vod_count = Val(wrote[s]).vod_count

(* The entry r holds the aggregate a refresh computed.                     *)
EntryOfAggregate(r, summary) ==
    /\ r.vod_count = summary.vod_count
    /\ Some(r.avg_vod_views) = summary.avg_vod_views
    /\ r.median_vod_views = FloatOrZero(summary.median_vod_views)
    /\ Some(r.views_per_hour) = summary.views_per_hour

(* The entry r, seen on connection c, is that of one refresh of its        *)
(* channel: one that committed, or the one c is about to commit.           *)
FromOneRefresh(r, c) ==
    \E s \in AppConns :
       /\ channel[s] = r.user_login
       /\ \/ wrote[s] # None /\ EntryOfAggregate(r, Val(wrote[s]))
          \/ s = c /\ apc[s] = "commit" /\ EntryOfAggregate(r, Val(vs[s]))

(* C10: whatever the interleaving of two refreshes and of reads, every     *)
(* connection sees at most one entry per channel, each entry and each      *)
(* summary a page has read holds the aggregate of one single refresh.      *)
C10_NoMixedEntry ==
    /\ \A c \in Conns :
          /\ \A r1, r2 \in CacheView(Db, c) : r1.user_login = r2.user_login => r1 = r2
          /\ \A r \in CacheView(Db, c) : FromOneRefresh(r, c)
    /\ \A s \in AppConns :
          vod_cached[s] # None =>
             \E t \in AppConns :
                /\ channel[t] = channel[s]
                /\ wrote[t] # None
                /\ EntryOfAggregate(Val(vod_cached[s]), Val(wrote[t]))

(* Two refreshes of one channel are in flight with different aggregates:   *)
(* one holds the write lock with its statement executed, the other is      *)
(* about to execute its own.                                               *)
C10_Witness ==
    \E s, t \in AppConns :
       /\ s # t
       /\ channel[s] = channel[t]
       /\ apc[s] = "commit" /\ lock = s
       /\ apc[t] = "execute"
       /\ vs[s] # vs[t]

(* Projections (C11).                                                      *)
(* The product of exact quotients, by cross multiplication.                *)
IsProduct(p, a, b) == p[1] * a[2] * b[2] = a[1] * b[1] * p[2]

ProjectionAsClaimed(args, res) ==
    LET hours == args[1]
        avg == args[2]
        peak == args[3]
        churn == args[4]
        rate == args[5]
    IN /\ peak = None => res.projected_peak = None
       /\ peak # None => res.projected_peak = Some(<<Val(peak), 1>>)
       /\ avg = None =>
             /\ res.projected_avg_viewers = None
             /\ res.projected_hours_watched = None
             /\ res.projected_unique_views = None
             /\ res.projected_vod_views = None
       /\ avg # None =>
             /\ res.projected_avg_viewers = avg
             /\ res.projected_hours_watched # None
             /\ IsProduct(Val(res.projected_hours_watched), Val(avg), hours)
             /\ res.projected_unique_views # None
             /\ IsProduct(Val(res.projected_unique_views),
                          Val(res.projected_hours_watched), churn)
             /\ rate = None => res.projected_vod_views = None
             /\ rate # None =>
                   /\ res.projected_vod_views # None
                   /\ IsProduct(Val(res.projected_vod_views), Val(rate), hours)

(* C11: project_twitch returns, without an average, null everywhere but    *)
(* the peak passed through, a VOD rate given or not; with an average, the  *)
(* average itself, the peak, average * hours, average * hours * churn and  *)
(* rate * hours or null, unclamped and unrounded.                          *)
C11_Projection ==
    ret.op = "project_twitch" => ProjectionAsClaimed(ret.args, ret.result)

(* The example: 1000 viewers, 20 hours, churn 2.5 give 20000 and 50000.    *)
C11_Witness ==
    /\ ret.op = "project_twitch"
    /\ ret.args[1] = <<20, 1>>
    /\ ret.args[2] = Some(<<1000, 1>>)
    /\ ret.args[4] = <<5, 2>>
    /\ ret.result.projected_hours_watched = Some(<<20000, 1>>)
    /\ ret.result.projected_unique_views = Some(<<50000, 1>>)

(* The VOD aggregate (C12).                                                *)
RECURSIVE Pow10(_)
Pow10(n) == IF n = 0 THEN 1 ELSE 10 * Pow10(n - 1)

RECURSIVE SumOf(_, _)
SumOf(f, S) ==
    IF S = {} THEN 0
    ELSE LET x == CHOOSE y \in S : TRUE IN f[x] + SumOf(f, S \ {x})

(* The number written by the digits immediately preceding the first unit   *)
(* letter that digits precede; 0 when there is none.                       *)
UnitAsClaimed(text, unit) ==
    LET ends == {j \in 2..Len(text) : text[j] = unit /\ IsDigit(text[j - 1])}
    IN IF ends = {} THEN 0
       ELSE LET j == CHOOSE e \in ends : \A f \in ends : e <= f
                run == {k \in 1..(j - 1) : \A i \in k..(j - 1) : IsDigit(text[i])}
            IN SumOf([k \in run |-> DigitValue(text[k]) * Pow10(j - 1 - k)], run)

SecondsAsClaimed(v) ==
    IF v.duration = None THEN 0
    ELSE 3600 * UnitAsClaimed(Val(v.duration), "h")
         + 60 * UnitAsClaimed(Val(v.duration), "m")
         + UnitAsClaimed(Val(v.duration), "s")

ViewsAsClaimed(v) == IF v.view_count = None THEN 0 ELSE Val(v.view_count)

(* The k-th smallest of the values of f.                                   *)
KthSmallest(f, k) ==
    CHOOSE a \in {f[i] : i \in DOMAIN f} :
       /\ Cardinality({i \in DOMAIN f : f[i] < a}) < k
       /\ k <= Cardinality({i \in DOMAIN f : f[i] <= a})

(* q is n / d, d > 0: both are the same multiple of q's terms.             *)
IsQuotient(q, n, d) ==
    LET g == d \div q[2]
    IN q[2] > 0 /\ q[2] * g = d /\ q[1] * g = n

SummaryAsClaimed(listing, res) ==
    LET n == Len(listing)
        views == [i \in 1..n |-> ViewsAsClaimed(listing[i])]
        total_views == SumOf(views, 1..n)
        total_seconds == SumOf([i \in 1..n |-> SecondsAsClaimed(listing[i])], 1..n)
        twice_median == IF n % 2 = 1 THEN 2 * KthSmallest(views, (n + 1) \div 2)
                        ELSE KthSmallest(views, n \div 2) + KthSmallest(views, n \div 2 + 1)
    IN /\ res.vod_count = n
       /\ n = 0 => /\ res.avg_vod_views = None
                   /\ res.median_vod_views = None
                   /\ res.views_per_hour = None
       /\ n > 0 =>
             /\ res.avg_vod_views # None
             /\ Val(res.avg_vod_views)[1] * n = total_views * Val(res.avg_vod_views)[2]
             /\ res.median_vod_views # None
             /\ 2 * Val(res.median_vod_views)[1] = twice_median * Val(res.median_vod_views)[2]
             /\ total_seconds = 0 => res.views_per_hour = None
             /\ total_seconds > 0 =>
                   /\ res.views_per_hour # None
                   /\ IsQuotient(Val(res.views_per_hour), total_views * 3600,
                                 total_seconds)

(* C12: vod_summary returns the number of records, total views over that   *)
(* number, the standard median of the views (the mean of the two middle    *)
(* ones for an even count) and total views over total hours, the hours of  *)
(* a record being h + m/60 + s/3600 with each unit read from the digits    *)
(* before its letter and 0 without them; the rate is null when the hours   *)
(* are 0, and all three are null for an empty listing.                     *)
C12_VodSummary ==
    ret.op = "vod_summary" => SummaryAsClaimed(ret.args[1], ret.result)

(* The example: views 100, 300, 200 over 1, 1 and 2 hours give 200, 200    *)
(* and 150.                                                                *)
C12_Witness ==
    /\ ret.op = "vod_summary"
    /\ ret.args[1] = <<Vod(100, <<"1", "h">>), Vod(300, <<"1", "h">>), Vod(200, <<"2", "h">>)>>
    /\ ret.result.avg_vod_views = Some(<<200, 1>>)
    /\ ret.result.median_vod_views = Some(<<200, 1>>)
    /\ ret.result.views_per_hour = Some(<<150, 1>>)

(* Login normalization (C13).                                              *)
(* C13: every variant of a canonical login (any case, whitespace around    *)
(* the whole text, a Twitch URL before the login, '@' before the login,    *)
(* or several of these) is normalized to that login.                       *)
C13_NormalizeVariants ==
    ret.op = "normalize_twitch_login" =>
       \A login \in CanonicalLogins :
          ret.args[1] \in Variants(login) => ret.result = login

(* A text with all four at once has been normalized to its login.          *)
C13_Witness ==
    /\ ret.op = "normalize_twitch_login"
    /\ ret.args[1] = <<" ", "\t">> \o Scheme \o SchemeEnd \o Www \o Host
                       \o <<"@", "A", "b", "\n">>
    /\ ret.result = <<"a", "b">>

(* The chunked lookups (C14).                                              *)
RECURSIVE Concat(_)
Concat(chunks) == IF chunks = <<>> THEN <<>> ELSE chunks[1] \o Concat(Tail(chunks))

(* The lowercased logins of the records of a response.                     *)
ReturnedLogins(method, data) ==
    {Lower(Val(IF method = "get_streams_by_logins" THEN p.user_login ELSE p.login)) :
        p \in data}

(* C14: the requests of a lookup carry, in order, the logins of the list,  *)
(* each position in exactly one request and at most 100 per request (all   *)
(* of them once the lookup has returned); the keys of the result are       *)
(* lowercase; an answered request raises nothing whatever it returns, and  *)
(* the result holds the logins that were returned and no other.            *)
C14_ChunkedLookup ==
    /\ [](/\ \A k \in 1..Len(sent) : Len(sent[k]) \in 1..100
          /\ Concat(sent) = SubSeq(channels, 1, Len(Concat(sent)))
          /\ cpc = "returned" => Concat(sent) = channels
          /\ \A key \in DOMAIN out \cup DOMAIN live_map : Lower(key) = key)
    /\ [][ret'.op \in LookupMethods /\ ret'.args # <<>> =>
            LET tokResp == ret'.args[1]
                apiResp == ret'.args[2]
                answered == /\ apiResp.ok
                            /\ \/ TokenFresh(token["collector"], token_exp["collector"], now)
                               \/ tokResp.ok
            IN /\ answered => /\ ret'.exc = None
                              /\ DOMAIN out' =
                                   DOMAIN out \cup ReturnedLogins(ret'.op, apiResp.data)
               /\ ~answered => ret'.exc # None /\ out' = out
               /\ cpc' = "returned" => live_map' = out']_vars

(* A list of 201 logins has been looked up in three requests; of its first *)
(* and last login only the first, returned in upper case, is in the        *)
(* result.                                                                 *)
C14_Witness ==
    /\ cpc = "returned"
    /\ Len(channels) = 2 * chunk_size + 1
    /\ Len(sent) = 3
    /\ DOMAIN live_map = {LoginA}

(* The channels file (C15).                                                *)
(* Line i of the file, without the whitespace around it.                   *)
Trimmed(lines, i) ==
    LET inside == {k \in 1..Len(lines[i]) : lines[i][k] \notin {" ", "\t", "\n"}}
        first == CHOOSE m \in inside : \A n \in inside : m <= n
        last == CHOOSE m \in inside : \A n \in inside : m >= n
    IN [k \in 1..(last - first + 1) |-> lines[i][k - 1 + first]]

(* The lines that count: not blank and not starting with '#'.              *)
Counted(lines) ==
    {i \in 1..Len(lines) :
        \E k \in 1..Len(lines[i]) :
           /\ lines[i][k] \notin {" ", "\t", "\n"}
           /\ \A m \in 1..(k - 1) : lines[i][m] \in {" ", "\t", "\n"}
           /\ lines[i][k] # "#"}

Folded(lines, i) == Lower(Trimmed(lines, i))

FirstLineOf(lines, login) ==
    CHOOSE i \in Counted(lines) :
       /\ Folded(lines, i) = login
       /\ \A k \in Counted(lines) : Folded(lines, k) = login => i <= k

ListAsClaimed(lines, list) ==
    /\ {list[p] : p \in 1..Len(list)} = {Folded(lines, i) : i \in Counted(lines)}
    /\ \A p, q \in 1..Len(list) : p # q => list[p] # list[q]
    /\ \A p, q \in 1..Len(list) :
          p < q => FirstLineOf(lines, list[p]) < FirstLineOf(lines, list[q])

(* C15: the list loaded from an existing channels file holds exactly the   *)
(* case-folded lines that are not blank and do not start with '#', each    *)
(* login once, in the order of first occurrence; read_channels_file and    *)
(* load_streamers_file return the same list for it.                        *)
C15_ChannelsFile ==
    ret.op \in {"read_channels_file", "load_streamers_file"} /\ ret.args[1] # None =>
       /\ ret.exc = None
       /\ ret.result # None
       /\ ListAsClaimed(Val(ret.args[1]), Val(ret.result))
       /\ read_channels_file(ret.args[1]) = load_streamers_file(ret.args[1])

(* A file with a login in two spellings around a comment and another       *)
(* login has been loaded by the collector as the two logins.               *)
C15_Witness ==
    /\ ret.op = "read_channels_file"
    /\ ret.args[1] = Some(<<<<"B", " ", "#", "\n">>, <<"A", "\n">>, <<" ", "a", " ", "\n">>>>)
    /\ ret.result = Some(<<<<"b", " ", "#">>, <<"a">>>>)

(* The shape of a tick (C16).                                              *)
(* C16: the timestamp changes only when a tick starts; the requests of a   *)
(* tick's lookup walk the channel list once, no chunk asked for twice; the *)
(* store is written at most once per tick, after the lookup, every row     *)
(* carrying the tick's timestamp; and a tick starts only when the poll     *)
(* interval has passed since the previous tick started, whether that one   *)
(* was saved or failed in its lookup, token request included.  A write or  *)
(* a commit that raises ends the process with the store as it was: no      *)
(* tick follows.                                                           *)
C16_TickShape ==
    /\ [][ts' # ts => cpc = "tick" /\ cpc' = "lookup"]_vars
    /\ [](Concat(sent) = SubSeq(channels, 1, Len(Concat(sent))))
    /\ [](savedTicks <= ticks)
    /\ [][samples' # samples \/ txnRows' # txnRows =>
            /\ \/ cpc = "write" /\ cpc' \in {"commit", "exited"}
               \/ cpc = "commit" /\ cpc' \in {"sleep_after_save", "exited"}
            /\ samples' # samples =>
                  /\ cpc = "commit" /\ cpc' = "sleep_after_save"
                  /\ txnRows["collector"] = rows
            /\ Concat(sent) = channels
            /\ cpc' = "sleep_after_save" => savedTicks' = savedTicks + 1
            /\ \A i \in (Len(samples) + 1)..Len(samples') : samples'[i][1] = ts]_vars
    /\ [][cpc = "write" => cpc' \in {"commit", "exited"}]_vars
    /\ [][cpc = "commit" => cpc' \in {"sleep_after_save", "exited"}]_vars
    /\ [][cpc' = "exited" => samples' = samples /\ savedTicks' = savedTicks]_vars
    /\ [][cpc = "exited" => cpc' = "exited" /\ ticks' = ticks]_vars
    /\ [][(cpc = "sleep_after_save" \/ cpc = "sleep_after_error") =>
            /\ cpc' = "tick"
            /\ now' = now + Seconds(DefaultInterval)]_vars
    /\ [][ticks' # ticks =>
            /\ ticks' = ticks + 1
            /\ cpc = "tick" /\ cpc' = "lookup"
            /\ ticks > 0 => now >= FromIsoFormat(ts) + Seconds(DefaultInterval)]_vars
    /\ [][ret'.op = "lookup" /\ ret'.exc # None => cpc' = "sleep_after_error"]_vars

(* The second tick is looking up, one poll interval after the first, whose *)
(* token request failed.                                                   *)
C16_Witness ==
    /\ ticks = 2
    /\ cpc = "lookup"
    /\ savedTicks = 0
    /\ tokenRequests = 1
    /\ token["collector"] = None
    /\ now = StartTime + Seconds(DefaultInterval)
    /\ FromIsoFormat(ts) = now

(* The sample log (C17).                                                   *)
(* C17: whatever the collector, a statistics query, a cache read or a VOD  *)
(* refresh does, the rows of stream_samples stay as they are and in place; *)
(* rows are added only by the write of a collector tick, one per           *)
(* configured channel in the order of the list, so that the log holds      *)
(* saved ticks times channels rows; and the rows of a channel follow each  *)
(* other in non-decreasing timestamp order.                                *)
C17_AppendOnlyLog ==
    /\ [][/\ Len(samples') >= Len(samples)
          /\ SubSeq(samples', 1, Len(samples)) = samples]_vars
    /\ [][samples' # samples =>
            /\ cpc = "commit" /\ cpc' = "sleep_after_save"
            /\ savedTicks' = savedTicks + 1
            /\ Len(samples') = Len(samples) + Len(channels)
            /\ \A i \in 1..Len(channels) :
                  samples'[Len(samples) + i][2] = channels[i]]_vars
    /\ [](Len(samples) = savedTicks * Len(channels))
    /\ [](\A i, j \in 1..Len(samples) :
            i < j /\ samples[i][2] = samples[j][2] =>
               /\ FromIsoFormat(samples[i][1]) <= FromIsoFormat(samples[j][1])
               /\ TextGE(samples[j][1], samples[i][1]))

(* Two ticks have been saved around a script run that committed a VOD     *)
(* refresh and whose statistics query read the log between the two.        *)
C17_Witness ==
    /\ savedTicks = 2
    /\ Len(samples) = 2 * Len(channels)
    /\ wrote[SystemSession] # None
    /\ cache # {}
    /\ stats[SystemSession] # None
    /\ Val(stats[SystemSession]).last_any_sample_utc = Some(samples[1][1])
    /\ samples[1][1] # samples[Len(samples)][1]

=============================================================================
